---- MODULE Spec2Model ----
(***************************************************************************)
(* A model of the pliars node: blocks with sidelinks, chain validation,    *)
(* fork choice and the gossip event handlers.                               *)
(*                                                                          *)
(* Modelling conventions                                                    *)
(*  - Text (String) is a sequence of character codes; '0'..'9' are 48..57.  *)
(*  - sha256 is modelled as collision free: the digest of a block is a      *)
(*    value that determines the block (Hash), and the bytes of a digest     *)
(*    (HashBytes) are the canonical serialization of what was hashed.       *)
(*    Where the code reduces a digest to a number (sidelink derivation,     *)
(*    proof-of-work token) the digest is mixed down to 0..ShaSpace-1.       *)
(*  - A Rust panic (unwrap on Err/None, index out of bounds, arithmetic     *)
(*    overflow in a build with overflow checks) is the outcome "panic".     *)
(***************************************************************************)
EXTENDS Integers, Sequences, FiniteSets, TLC

VARIABLES
    overflow_checks,   \* build profile: TRUE = arithmetic overflow panics, FALSE = wraps
    pc,                \* position of the validation harness
    chain,             \* harness: the chain handed to validate_chain / validate_block
    other,             \* harness: the second chain handed to find_longest_chain
    block,             \* harness: the block handed to validate_block
    result,            \* harness: what the applied function returned
    file,              \* the node's chain file: whether it exists, and its lines
    chain_initialized, \* CHAIN_INITIALIZATION_DONE
    new_last_block,    \* channel to the miner: the new tips not yet received
    crashed,           \* the event loop panicked
    last,              \* log of the event handled last: input, state before and after
    miner,             \* the mining task: its position and its local variables
    new_record,        \* channel to the miner: the records not yet received
    new_mined_block    \* channel from the miner: the mined blocks not yet received

harness_vars == <<pc, chain, other, block, result>>
node_vars == <<file, chain_initialized, new_last_block, crashed, last>>
miner_vars == <<miner, new_record, new_mined_block>>
vars == <<overflow_checks, harness_vars, node_vars, miner_vars>>

\* Every record constructor of this module lists its fields in TLC's normal
\* order, which is the order in which the names first occur in the module:
\* TLC sorts the fields of a record in place the first time it is compared,
\* and with several workers a record shared by two states could otherwise be
\* read by one worker while another one sorts it.

-----------------------------------------------------------------------------
(* Bounds of the model *)

\* sha256 output is mixed down to 0..ShaSpace-1
ShaSpace == 4
\* nonces tried by the blocks of the input universe: 0..MaxNonce
MaxNonce == 2
\* longest chain handed to the validation harness (context and block)
MaxChainLen == 3
\* longest chain handed to the fork choice harness
MaxForkLen == 3
\* longest chain a peer sends to the node
MaxNetLen == 2
\* most blocks the node's file holds
MaxStoreLen == 2
\* highest tip the node hands to the miner
MaxTip == 3
\* the configured sidelink parameters tried beside the default: 0..MaxParameter
MaxParameter == 1
\* most records in the block being mined
MaxRecords == 2
\* the clock readings: 1..MaxClock
MaxClock == 1
\* longest index list handed to get_blocks_by_indices_from_file
MaxIndices == 5
\* most messages waiting on a channel of the miner when it polls
MaxWaiting == 2
\* most records pending in the candidate of the tip-change harness
MaxPending == 3
\* most blocks of the miner's own the file holds when an attempt begins
MaxMined == 2
\* highest block handed to the sidelink harness
MaxHeight == 6
\* most sidelinks a block of the sidelink harness asks for
MaxSidelinks == 6
\* most tips waiting in the channel to the miner
MaxQueue == 1

(* Program constants *)

\* the network's difficulty (a 32-byte target, here a number below ShaSpace)
Difficulty == 2
\* "0".repeat(32)
ZeroHashLen == 32
\* nonce.to_be_bytes() of a u64
NonceBytes == 8

-----------------------------------------------------------------------------
(* Text *)

Digit0 == 48
PlusSign == 43

Min(a, b) == IF a < b THEN a ELSE b

RECURSIVE Flatten(_)
Flatten(ss) == IF ss = <<>> THEN <<>> ELSE Head(ss) \o Flatten(Tail(ss))

\* u64::to_string / format!("{}", i): decimal digits, most significant first
RECURSIVE DecimalString(_)
DecimalString(n) ==
    IF n < 10 THEN <<Digit0 + n>>
    ELSE DecimalString(n \div 10) \o <<Digit0 + (n % 10)>>

RECURSIVE DigitsValue(_)
DigitsValue(s) ==
    IF s = <<>> THEN 0
    ELSE 10 * DigitsValue(SubSeq(s, 1, Len(s) - 1)) + (s[Len(s)] - Digit0)

\* str::parse::<u64>: an optional '+' followed by at least one digit
ParseU64(s) ==
    LET body == IF s # <<>> /\ s[1] = PlusSign THEN Tail(s) ELSE s IN
    IF body # <<>> /\ \A i \in 1..Len(body) : body[i] \in Digit0..(Digit0 + 9)
    THEN [ok |-> TRUE, val |-> DigitsValue(body)]
    ELSE [ok |-> FALSE, val |-> 0]

\* u64::to_be_bytes (exact for n < 65536)
ToBeBytes(n) ==
    [i \in 1..NonceBytes |->
        IF i = NonceBytes THEN n % 256
        ELSE IF i = NonceBytes - 1 THEN (n \div 256) % 256
        ELSE 0]

-----------------------------------------------------------------------------
(* Blocks and hashing *)

ZeroHash == [i \in 1..ZeroHashLen |-> Digit0]

Genesis ==
    [idx |-> 1,
     previous_block_hash |-> ZeroHash,
     validation_sidelinks |-> <<>>,
     num_sidelinks |-> 0,
     pow |-> <<>>,
     timestamp |-> 0,
     records |-> <<>>,
     difficulty |-> 0]

\* Block::hash: base64(sha256(json(block))), collision free
Hash(b) == <<b>>

RecordBytes(r) ==
    <<r.idx[1], r.idx[2], r.timestamp, r.data, r.author_peer_id>>

\* serde_json::to_string(block): the fields in declaration order, every
\* variable-length field preceded by its length
RECURSIVE BlockBytes(_)
RECURSIVE HashBytes(_)
BlockBytes(b) ==
    <<b.idx>>
    \o HashBytes(b.previous_block_hash)
    \o <<Len(b.validation_sidelinks)>>
    \o Flatten([i \in 1..Len(b.validation_sidelinks) |->
                    HashBytes(b.validation_sidelinks[i])])
    \o <<b.num_sidelinks>>
    \o <<Len(b.pow)>> \o b.pow
    \o <<b.timestamp>>
    \o <<Len(b.records)>>
    \o Flatten([i \in 1..Len(b.records) |-> RecordBytes(b.records[i])])
    \o <<b.difficulty>>

\* the bytes of a hash string (a digest stands for what was hashed)
HashBytes(h) ==
    IF Len(h) = 1
    THEN LET s == BlockBytes(h[1]) IN <<Len(s)>> \o s
    ELSE h

\* sha256(bytes) reduced to a number: every byte and its position count
RECURSIVE ShaRange(_, _, _)
ShaRange(s, lo, hi) ==
    IF lo > hi THEN 1
    ELSE IF lo = hi THEN (s[lo] + lo) % ShaSpace
    ELSE LET mid == (lo + hi) \div 2 IN
         (3 * ShaRange(s, lo, mid) + ShaRange(s, mid + 1, hi) + 1) % ShaSpace

Sha(s) == ShaRange(s, 1, Len(s))

\* slice comparison of byte strings: lexicographic
BytesLess(s, t) ==
    \E i \in 1..(Min(Len(s), Len(t)) + 1) :
        /\ \A j \in 1..(i - 1) : s[j] = t[j]
        /\ \/ i > Len(s) /\ i <= Len(t)
           \/ i <= Len(s) /\ i <= Len(t) /\ s[i] < t[i]

-----------------------------------------------------------------------------
(* Proof of work, src/blockchain/pow.rs *)

\* sha256(previous_block_hash.as_bytes() ++ nonce.to_be_bytes())
Token(previous_block_hash, nonce) ==
    Sha(HashBytes(previous_block_hash) \o ToBeBytes(nonce))

get_new_token(new_block_so_far, nonce) ==
    Token(new_block_so_far.previous_block_hash, nonce)

\* the token for a parsed nonce; unwrap panics when pow is no decimal number
TokenFromParsed(previous_block_hash, parsed) ==
    IF parsed.ok
    THEN [panic |-> FALSE, token |-> Token(previous_block_hash, parsed.val)]
    ELSE [panic |-> TRUE, token |-> 0]

\* a token that also hashes the difficulty of the block
token_with_difficulty(b) ==
    IF ParseU64(b.pow).ok
    THEN [panic |-> FALSE,
          token |-> Sha(HashBytes(b.previous_block_hash) \o <<b.difficulty>>
                        \o ToBeBytes(ParseU64(b.pow).val))]
    ELSE [panic |-> TRUE, token |-> 0]

\* get_token_from_block: block.pow.parse::<u64>().unwrap(), then the token
get_token_from_block(b) ==
    TokenFromParsed(b.previous_block_hash, ParseU64(b.pow))

-----------------------------------------------------------------------------
(* Sidelink derivation, src/blockchain/block.rs *)

\* a swap that loses the element at a
Overwrite(cands, a, b) ==
    [cands EXCEPT ![a] = cands[b]]

Swap(cands, a, b) ==
    [cands EXCEPT ![a] = cands[b], ![b] = cands[a]]

\* the swaps number i .. number_of_swaps-1 of the loop
RECURSIVE PerformSwaps(_, _, _, _)
PerformSwaps(cands, hash, i, number_of_swaps) ==
    IF i >= number_of_swaps THEN cands
    ELSE PerformSwaps(
             Swap(cands,
                  (Sha(HashBytes(hash) \o DecimalString(i)) % Len(cands)) + 1,
                  (Sha(HashBytes(hash) \o DecimalString(i) \o DecimalString(i))
                      % Len(cands)) + 1),
             hash, i + 1, number_of_swaps)

\* a slice that keeps every candidate
AllOf(candidates, num_sidelinks) == candidates

\* candidates[candidates.len() - num_sidelinks..]
LastOf(candidates, num_sidelinks) ==
    SubSeq(candidates, Len(candidates) - num_sidelinks + 1, Len(candidates))

\* a derivation seeded with the hash of the block itself
derive_from_block_hash(b) ==
    IF b.num_sidelinks < b.idx - 1
    THEN LastOf(PerformSwaps([i \in 1..(b.idx - 2) |-> i], Hash(b),
                             0, b.num_sidelinks * 2),
                b.num_sidelinks)
    ELSE [i \in 1..(b.idx - 2) |-> i]

\* Block::derive_sidelink_indices, for a block with idx >= 2
derive_sidelink_indices(b) ==
    IF b.num_sidelinks < b.idx - 1
    THEN LastOf(PerformSwaps([i \in 1..(b.idx - 2) |-> i], b.previous_block_hash,
                             0, b.num_sidelinks * 2),
                b.num_sidelinks)
    ELSE [i \in 1..(b.idx - 2) |-> i]

-----------------------------------------------------------------------------
(* Chain validation, src/blockchain/chain.rs *)

\* Vec::get / the line of the file with that 1-based number
BlockAt(blocks, i) ==
    IF i \in 1..Len(blocks) THEN <<blocks[i]>> ELSE <<>>

\* a lookup that follows the index list instead of the file: one block for
\* each index that names a line, in the order of the list
blocks_in_list_order(indices, blocks) ==
    Flatten([k \in 1..Len(indices) |-> BlockAt(blocks, indices[k])])

\* Chain::get_blocks_by_indices_from_file: the lines whose number is among the
\* indices, in file order
get_blocks_by_indices_from_file(indices, blocks) ==
    Flatten([i \in 1..Len(blocks) |->
                IF \E k \in 1..Len(indices) : indices[k] = i
                THEN <<blocks[i]>> ELSE <<>>])

\* the loop over sidelinked_blocks: its loop variable is named block and shadows
\* the block under validation, so the i-th sidelinked block is compared with
\* the i-th entry of its own validation_sidelinks.  Indexing past the end
\* panics.
SidelinkLoopFrom(sidelinked_blocks, i) ==
    IF i > Len(sidelinked_blocks[i].validation_sidelinks) THEN "panic"
    ELSE "reject"

SidelinkLoop(sidelinked_blocks) ==
    IF \A i \in 1..Len(sidelinked_blocks) :
          /\ i <= Len(sidelinked_blocks[i].validation_sidelinks)
          /\ Hash(sidelinked_blocks[i]) = sidelinked_blocks[i].validation_sidelinks[i]
    THEN "ok"
    ELSE SidelinkLoopFrom(
             sidelinked_blocks,
             CHOOSE i \in 1..Len(sidelinked_blocks) :
                 /\ \/ i > Len(sidelinked_blocks[i].validation_sidelinks)
                    \/ Hash(sidelinked_blocks[i])
                           # sidelinked_blocks[i].validation_sidelinks[i]
                 /\ \A j \in 1..(i - 1) :
                       /\ j <= Len(sidelinked_blocks[j].validation_sidelinks)
                       /\ Hash(sidelinked_blocks[j])
                              = sidelinked_blocks[j].validation_sidelinks[j])

\* a validator that takes any block at idx - 1 for the predecessor
links_to_any_block(b, previous_block) == TRUE

\* the check that the block is the next block in the chain
links_to_previous(b, previous_block) ==
    b.previous_block_hash = Hash(previous_block)

\* a comparison that also lets a token equal to the difficulty pass
TokenNotAbove(token, difficulty) ==
    IF token.panic THEN "panic"
    ELSE IF token.token <= difficulty THEN "ok" ELSE "reject"

\* token.cmp(block.difficulty) != Ordering::Less rejects
TokenBelow(token, difficulty) ==
    IF token.panic THEN "panic"
    ELSE IF token.token < difficulty THEN "ok" ELSE "reject"

\* the check of the proof of work
PowCheck(b) == TokenBelow(get_token_from_block(b), b.difficulty)

\* after the loop over the sidelinked blocks
ValidateProofOfWork(b, loop) ==
    IF loop # "ok" THEN loop ELSE PowCheck(b)

\* from the derived indices on
ValidateSidelinks(b, validation_sidelinks, blocks, source) ==
    IF Len(validation_sidelinks) # b.num_sidelinks THEN "reject"
    ELSE IF source = "Chain"
            /\ \E k \in 1..Len(validation_sidelinks) :
                  BlockAt(blocks, validation_sidelinks[k]) = <<>>
    THEN "reject"
    ELSE ValidateProofOfWork(
             b,
             SidelinkLoop(
                 IF source = "File"
                 THEN get_blocks_by_indices_from_file(validation_sidelinks, blocks)
                 ELSE [k \in 1..Len(validation_sidelinks) |->
                          blocks[validation_sidelinks[k]]]))

\* from the lookup of the previous block on (<<>> is None)
ValidateOnPrevious(b, previous_block, blocks, source) ==
    IF previous_block = <<>> THEN "reject"
    ELSE IF b.idx # previous_block[1].idx + 1 THEN "reject"
    ELSE IF ~links_to_previous(b, previous_block[1]) THEN "reject"
    ELSE ValidateSidelinks(b, derive_sidelink_indices(b), blocks, source)

\* Chain::validate_block_core: "ok" (true), "reject" (false) or "panic".
\* blocks is the context (the lines of the file, or chain.blocks); readable
\* tells whether the file can be opened (TRUE for a chain in memory);
\* source is "File" or "Chain".  With idx = 0 the subtraction idx - 1
\* overflows: a panic with overflow checks, otherwise no block is found.
validate_block_core(b, blocks, readable, source) ==
    IF b.idx = 1 THEN (IF b # Genesis THEN "reject" ELSE "ok")
    ELSE IF b.idx = 0 THEN (IF overflow_checks THEN "panic" ELSE "reject")
    ELSE ValidateOnPrevious(
             b, IF readable THEN BlockAt(blocks, b.idx - 1) ELSE <<>>, blocks, source)

validate_block_using_file(b, blockchain_file) ==
    validate_block_core(b, blockchain_file.blocks, blockchain_file.exists, "File")

validate_block(c, b) ==
    validate_block_core(b, c, TRUE, "Chain")

\* the loop of validate_chain stops at the first block that does not validate
FirstFailure(verdicts) ==
    IF \A i \in DOMAIN verdicts : verdicts[i] = "ok" THEN "ok"
    ELSE verdicts[CHOOSE k \in DOMAIN verdicts :
                     /\ verdicts[k] # "ok"
                     /\ \A m \in DOMAIN verdicts : m < k => verdicts[m] = "ok"]

\* Chain::validate_chain: "ok", "reject" or "panic"
validate_chain(c) ==
    IF c = <<>> THEN "reject"
    ELSE IF c[1] # Genesis THEN "reject"
    ELSE FirstFailure([i \in 2..Len(c) |-> validate_block(c, c[i])])

\* a fork choice that prefers the larger tip hash at equal length
winner_by_larger_hash(local_chain, remote_chain, local_ok, remote_ok) ==
    IF local_ok /\ remote_ok
    THEN IF Len(local_chain) > Len(remote_chain) THEN "Local"
         ELSE IF Len(local_chain) < Len(remote_chain) THEN "Remote"
         ELSE IF local_chain[Len(local_chain)] = remote_chain[Len(remote_chain)]
              THEN "Both"
         ELSE IF BytesLess(HashBytes(Hash(local_chain[Len(local_chain)])),
                           HashBytes(Hash(remote_chain[Len(remote_chain)])))
              THEN "Remote"
         ELSE "Local"
    ELSE IF local_ok THEN "Local"
    ELSE IF remote_ok THEN "Remote"
    ELSE "NoChain"

\* a fork choice that keeps the local chain at equal length
winner_local_on_tie(local_chain, remote_chain, local_ok, remote_ok) ==
    IF local_ok /\ remote_ok
    THEN IF Len(local_chain) >= Len(remote_chain) THEN "Local" ELSE "Remote"
    ELSE IF local_ok THEN "Local"
    ELSE IF remote_ok THEN "Remote"
    ELSE "NoChain"

\* a fork choice that lets a longer invalid chain veto the valid one
winner_needs_length(local_chain, remote_chain, local_ok, remote_ok) ==
    IF local_ok /\ remote_ok
    THEN IF Len(local_chain) >= Len(remote_chain) THEN "Local" ELSE "Remote"
    ELSE IF local_ok
    THEN IF Len(local_chain) >= Len(remote_chain) THEN "Local" ELSE "NoChain"
    ELSE IF remote_ok
    THEN IF Len(remote_chain) >= Len(local_chain) THEN "Remote" ELSE "NoChain"
    ELSE "NoChain"

\* the comparison of the decoded tip hashes at equal length
CompareTips(local_last_block_hash, remote_last_block_hash) ==
    IF BytesLess(local_last_block_hash, remote_last_block_hash) THEN "Local"
    ELSE IF local_last_block_hash = remote_last_block_hash THEN "Both"
    ELSE "Remote"

\* the winner of find_longest_chain, given what validate_chain returned
winner_chain_type(local_chain, remote_chain, local_ok, remote_ok) ==
    IF local_ok /\ remote_ok
    THEN IF Len(local_chain) > Len(remote_chain) THEN "Local"
         ELSE IF Len(local_chain) < Len(remote_chain) THEN "Remote"
         ELSE CompareTips(HashBytes(Hash(local_chain[Len(local_chain)])),
                          HashBytes(Hash(remote_chain[Len(remote_chain)])))
    ELSE IF local_ok THEN "Local"
    ELSE IF remote_ok THEN "Remote"
    ELSE "NoChain"

\* the ChainChoice for a winner (<<>> for no chain)
ChainChoiceOf(winner, local_chain, remote_chain) ==
    [chosen_chain_type |-> winner,
     chosen_chain |->
         IF winner = "Local" THEN local_chain
         ELSE IF winner = "Remote" THEN remote_chain
         ELSE <<>>]

\* find_longest_chain, given what validate_chain returned for the two chains
ChooseValidated(local_chain, remote_chain, local_validation, remote_validation) ==
    IF "panic" \in {local_validation, remote_validation}
    THEN [chosen_chain_type |-> "panic", chosen_chain |-> <<>>]
    ELSE ChainChoiceOf(
             winner_chain_type(local_chain, remote_chain,
                               local_validation = "ok", remote_validation = "ok"),
             local_chain, remote_chain)

\* find_longest_chain: the chain type and the chosen chain
find_longest_chain(local_chain, remote_chain) ==
    ChooseValidated(local_chain, remote_chain,
                    validate_chain(local_chain), validate_chain(remote_chain))

-----------------------------------------------------------------------------
(* The chain file, src/blockchain/chain.rs.  Every write takes the outcome   *)
(* of the file system: "ok", "create_failed" (the file cannot be opened for   *)
(* writing) or "write_failed" (File::create truncated the file and the write  *)
(* failed).                                                                   *)

IoOutcomes == {"ok", "create_failed", "write_failed"}

\* static mut NUM_SIDELINKS
NUM_SIDELINKS == 5

\* Chain::load_from_file: <<chain>>, or <<>> for Err
load_from_file(blockchain_file) ==
    IF blockchain_file.exists
    THEN <<[num_sidelinks |-> NUM_SIDELINKS, blocks |-> blockchain_file.blocks]>>
    ELSE <<>>

\* Chain::save_blockchain_to_file
save_blockchain_to_file(blocks, blockchain_file, io) ==
    IF io = "ok"
    THEN [file |-> [blocks |-> blocks, exists |-> TRUE], ok |-> TRUE]
    ELSE IF io = "create_failed"
    THEN [file |-> blockchain_file, ok |-> FALSE]
    ELSE [file |-> [blocks |-> <<>>, exists |-> TRUE], ok |-> FALSE]

\* Chain::append_block_to_file: the file is opened without create
append_block_to_file(b, blockchain_file, io) ==
    IF blockchain_file.exists /\ io = "ok"
    THEN [file |-> [blockchain_file EXCEPT !.blocks = Append(@, b)],
          ok |-> TRUE]
    ELSE [file |-> blockchain_file, ok |-> FALSE]

\* Chain::get_blockchain_length: the number of lines, <<>> for Err
get_blockchain_length(blockchain_file) ==
    IF blockchain_file.exists THEN <<Len(blockchain_file.blocks)>> ELSE <<>>

\* Chain::load_block_from_file: the line block_idx - 1 of the enumeration.
\* With block_idx = 0 the subtraction, made for the first line that is read,
\* overflows: a panic with overflow checks, otherwise an index that no line
\* has.
load_block_from_file(block_idx, blockchain_file) ==
    IF ~blockchain_file.exists
    THEN [panic |-> FALSE, found |-> <<>>]
    ELSE IF block_idx = 0
    THEN [panic |-> overflow_checks /\ blockchain_file.blocks # <<>>,
          found |-> <<>>]
    ELSE [panic |-> FALSE, found |-> BlockAt(blockchain_file.blocks, block_idx)]

\* Chain::get_blocks_by_indices_from_file on a file: None (<<>>) when the file
\* cannot be opened, else Some (<<blocks>>)
BlocksByIndicesFromFile(indices, blockchain_file) ==
    IF blockchain_file.exists
    THEN <<get_blocks_by_indices_from_file(indices, blockchain_file.blocks)>>
    ELSE <<>>

\* The lines of a file: <<b>> is the line of block b, <<>> an empty line.
LinesOf(blocks) == [i \in 1..Len(blocks) |-> <<blocks[i]>>]

\* line.len() of a line read by BufReader::lines
LineLen(line) == IF line = <<>> THEN 0 ELSE Len(BlockBytes(line[1]))

\* last_line_pos after the first k lines: each adds its length and 1 for the
\* line break
RECURSIVE LastLinePos(_, _)
LastLinePos(lines, k) ==
    IF k = 0 THEN 0 ELSE LastLinePos(lines, k - 1) + LineLen(lines[k]) + 1

LargestOf(ks) == CHOOSE k \in ks : \A j \in ks : j <= k

\* File::set_len(pos) on a position that is not past the end: the lines that
\* end at or before pos stay
set_len(lines, pos) ==
    SubSeq(lines, 1, LargestOf({k \in 0..Len(lines) : LastLinePos(lines, k) <= pos}))

\* the loop and the truncation of remove_last_block_from_file: the file is cut
\* at last_non_empty_line_pos, the position after the last non-empty line
TruncatedLines(lines) ==
    IF \A k \in 1..Len(lines) : lines[k] = <<>>
    THEN lines
    ELSE set_len(lines,
                 LastLinePos(lines,
                     LargestOf({k \in 1..Len(lines) : lines[k] # <<>>})))

\* Chain::remove_last_block_from_file; a file that cannot be opened is left
\* alone, and so is the file when the truncation fails
remove_last_block_from_file(blockchain_file, io) ==
    IF blockchain_file.exists /\ io = "ok"
    THEN [blockchain_file EXCEPT !.blocks = Flatten(TruncatedLines(LinesOf(@)))]
    ELSE blockchain_file

-----------------------------------------------------------------------------
(* Gossip events, src/network/event.rs and src/network/event_handling.rs.    *)
(* A node is [file, chain_initialized, new_last_block, crashed]; a handler    *)
(* returns the node afterwards, the events it published and the chain type    *)
(* it chose ("none" when it made no choice).                                  *)

\* NetworkEvent::send: what is published.  Only the InitUsingChain and Message
\* arms call send_network_event; the other arms print and return.
NetworkEvent_send(event) ==
    IF event.type \in {"InitUsingChain", "Message"} THEN <<event>> ELSE <<>>

Panicked(node) ==
    [node |-> [node EXCEPT !.crashed = TRUE], sent |-> <<>>, chosen |-> "panic"]

Ignored(node) ==
    [node |-> node, sent |-> <<>>, chosen |-> "none"]

NoChainChoice == [chosen_chain_type |-> "NoChain", chosen_chain |-> <<>>]

\* the match of verify_and_save_chain; the chain is saved only if it is valid
VerifiedAndSaved(chain_valid, saved, blockchain_file) ==
    IF chain_valid = "panic"
    THEN [file |-> blockchain_file, validity |-> "panic"]
    ELSE IF chain_valid = "ok"
    THEN [file |-> saved.file,
          validity |-> IF saved.ok THEN "ValidChainAndFile" ELSE "InvalidFile"]
    ELSE [file |-> blockchain_file, validity |-> "InvalidChain"]

\* verify_and_save_chain
verify_and_save_chain(remote_chain, blockchain_file, io) ==
    VerifiedAndSaved(validate_chain(remote_chain.blocks),
                     save_blockchain_to_file(remote_chain.blocks, blockchain_file, io),
                     blockchain_file)

\* choose_chain when the local chain was not compared: the remote chain is
\* verified and saved
ChoiceOfVerified(remote_chain, verified, io) ==
    [file |-> verified.file,
     io |-> io,
     choice |->
         IF verified.validity = "panic"
         THEN [chosen_chain_type |-> "panic", chosen_chain |-> <<>>]
         ELSE IF verified.validity = "ValidChainAndFile"
         THEN [chosen_chain_type |-> "Remote", chosen_chain |-> remote_chain.blocks]
         ELSE NoChainChoice]

\* the first half of choose_chain: the choice, the file so far and the outcome
\* of the next write
FirstChoice(local_chain, remote_chain, node, io) ==
    IF node.chain_initialized /\ local_chain # <<>>
    THEN [file |-> node.file,
          io |-> io[1],
          choice |-> find_longest_chain(local_chain[1].blocks, remote_chain.blocks)]
    ELSE ChoiceOfVerified(remote_chain,
                          verify_and_save_chain(remote_chain, node.file, io[1]),
                          io[2])

\* a choose_chain that keeps its choice whether or not the chain was saved
ChoiceDespiteSave(choice, saved) ==
    [file |-> saved.file, choice |-> choice]

\* the remote chain was saved as the local chain, or not
ChoiceOfSaved(choice, saved) ==
    [file |-> saved.file, choice |-> IF saved.ok THEN choice ELSE NoChainChoice]

\* a choose_chain that never writes the winning remote chain to the file
KeepLocalStore(remote_chain, first) ==
    [file |-> first.file, choice |-> first.choice]

\* the second half of choose_chain: a winning remote chain is stored
StoreIfRemote(remote_chain, first) ==
    IF first.choice.chosen_chain_type = "Remote"
    THEN ChoiceOfSaved(first.choice,
                       save_blockchain_to_file(remote_chain.blocks, first.file,
                                               first.io))
    ELSE [file |-> first.file, choice |-> first.choice]

\* choose_chain: the choice and the file afterwards; io[k] is the outcome of
\* the k-th write
choose_chain(remote_chain, node, io) ==
    StoreIfRemote(remote_chain,
                  FirstChoice(load_from_file(node.file), remote_chain, node, io))

\* handle_chain_choice_result, applied to the node choose_chain left
handle_chain_choice_result(chosen_chain, node, chain_received_from_peer_id) ==
    IF chosen_chain.chosen_chain_type = "Local"
    THEN [node |-> node,
          sent |-> NetworkEvent_send(
                      [type |-> "RemoteChainResponse",
                       chain_from_sender |->
                           [num_sidelinks |-> NUM_SIDELINKS,
                            blocks |-> chosen_chain.chosen_chain],
                       chain_receiver |-> chain_received_from_peer_id]),
          chosen |-> "Local"]
    ELSE IF chosen_chain.chosen_chain_type = "Remote"
    THEN [node |-> [node EXCEPT !.new_last_block =
                        Append(@, chosen_chain.chosen_chain[
                                      Len(chosen_chain.chosen_chain)])],
          sent |-> <<>>,
          chosen |-> "Remote"]
    ELSE [node |-> node, sent |-> <<>>, chosen |-> chosen_chain.chosen_chain_type]

\* choose_chain followed by handle_chain_choice_result
HandleChoice(chosen, node, received_from) ==
    IF chosen.choice.chosen_chain_type = "panic" THEN Panicked(node)
    ELSE handle_chain_choice_result(chosen.choice,
                                    [node EXCEPT !.file = chosen.file],
                                    received_from)

\* the else branch of the InitUsingChain and RemoteChainResponse arms
handle_remote_chain_if_local_initialized(remote_chain, node, received_from, io) ==
    HandleChoice(choose_chain(remote_chain, node, io), node, received_from)

\* an adoption that sets the flag but sends no tip to the miner
AdoptWithoutTip(remote_chain, node, remote_chain_save_result) ==
    IF remote_chain_save_result.validity = "panic" THEN Panicked(node)
    ELSE IF remote_chain_save_result.validity = "ValidChainAndFile"
    THEN [node |-> [node EXCEPT
                      !.file = remote_chain_save_result.file,
                      !.chain_initialized = TRUE],
          sent |-> <<>>, chosen |-> "none"]
    ELSE Ignored([node EXCEPT !.file = remote_chain_save_result.file])

\* the match of handle_remote_chain_if_local_uninitialized
AdoptIfSaved(remote_chain, node, remote_chain_save_result) ==
    IF remote_chain_save_result.validity = "panic" THEN Panicked(node)
    ELSE IF remote_chain_save_result.validity = "ValidChainAndFile"
    THEN [node |-> [node EXCEPT
                      !.file = remote_chain_save_result.file,
                      !.chain_initialized = TRUE,
                      !.new_last_block =
                          Append(@, remote_chain.blocks[Len(remote_chain.blocks)])],
          sent |-> <<>>, chosen |-> "none"]
    ELSE Ignored([node EXCEPT !.file = remote_chain_save_result.file])

\* handle_remote_chain_if_local_uninitialized
handle_remote_chain_if_local_uninitialized(remote_chain, node, received_from, io) ==
    AdoptIfSaved(remote_chain, node,
                 verify_and_save_chain(remote_chain, node.file, io[1]))

\* the BlockProposal arm after validation: the miner is told first, then the
\* block is appended, and a failure to append is only printed
ProposalValidated(b, node, received_from, valid, appended) ==
    IF valid = "panic" THEN Panicked(node)
    ELSE IF valid = "ok"
    THEN [node |-> [node EXCEPT !.new_last_block = Append(@, b),
                                !.file = appended.file],
          sent |-> <<>>, chosen |-> "none"]
    ELSE [node |-> node,
          sent |-> NetworkEvent_send([type |-> "RemoteChainRequest",
                                      asked_peer_id |-> received_from]),
          chosen |-> "none"]

\* the BlockProposal arm
HandleBlockProposal(b, node, received_from, io) ==
    ProposalValidated(b, node, received_from,
                      validate_block_using_file(b, node.file),
                      append_block_to_file(b, node.file, io[1]))

\* the RemoteChainRequest arm
HandleRemoteChainRequest(asked_peer_id, node, local_peer_id, received_from) ==
    IF asked_peer_id = local_peer_id /\ load_from_file(node.file) # <<>>
    THEN [node |-> node,
          sent |-> NetworkEvent_send([type |-> "RemoteChainResponse",
                                      chain_from_sender |-> load_from_file(node.file)[1],
                                      chain_receiver |-> received_from]),
          chosen |-> "none"]
    ELSE Ignored(node)

\* the InitUsingChain arm, and the RemoteChainResponse arm for a chain that
\* was addressed to this node
HandleRemoteChain(remote_chain, node, received_from, io) ==
    IF ~node.chain_initialized
    THEN handle_remote_chain_if_local_uninitialized(remote_chain, node,
                                                    received_from, io)
    ELSE handle_remote_chain_if_local_initialized(remote_chain, node,
                                                  received_from, io)

\* an event handler that takes every RemoteChainResponse as addressed to it
handle_any_receiver(event, node, local_peer_id, received_from, io) ==
    IF event.type \in {"InitUsingChain", "RemoteChainResponse"}
    THEN HandleRemoteChain(
             IF event.type = "InitUsingChain" THEN event.chain
             ELSE event.chain_from_sender,
             node, received_from, io)
    ELSE IF event.type = "BlockProposal"
    THEN HandleBlockProposal(event.block, node, received_from, io)
    ELSE IF event.type = "RemoteChainRequest"
    THEN HandleRemoteChainRequest(event.asked_peer_id, node, local_peer_id,
                                  received_from)
    ELSE Ignored(node)

\* the match of handle_incoming_network_event on the parsed event
HandleEvent(event, node, local_peer_id, received_from, io) ==
    IF event.type = "InitUsingChain"
       \/ (event.type = "RemoteChainResponse" /\ event.chain_receiver = local_peer_id)
    THEN HandleRemoteChain(
             IF event.type = "InitUsingChain" THEN event.chain
             ELSE event.chain_from_sender,
             node, received_from, io)
    ELSE IF event.type = "BlockProposal"
    THEN HandleBlockProposal(event.block, node, received_from, io)
    ELSE IF event.type = "RemoteChainRequest"
    THEN HandleRemoteChainRequest(event.asked_peer_id, node, local_peer_id,
                                  received_from)
    ELSE Ignored(node)

\* the variants of NetworkEvent
Variants ==
    {"Init", "InitUsingChain", "BlockProposal", "RemoteChainRequest",
     "RemoteChainResponse", "Message"}

\* NetworkEvent::from_string: the text of an event of one of the variants
\* gives <<event>>; for any other text serde_json::from_str returns Err (<<>>)
from_string(event_data) ==
    IF event_data.type \in Variants THEN <<event_data>> ELSE <<>>

\* from_string(..).expect(..) panics on Err
HandleParsed(parsed, node, local_peer_id, received_from, io) ==
    IF parsed = <<>> THEN Panicked(node)
    ELSE HandleEvent(parsed[1], node, local_peer_id, received_from, io)

\* handle_incoming_network_event
handle_incoming_network_event(event_data, node, local_peer_id, received_from, io) ==
    HandleParsed(from_string(event_data), node, local_peer_id, received_from, io)

\* the init command of the shell, src/main.rs, after the file was written: a
\* failure to save is only logged
InitSaved(blockchain, node, saved) ==
    [node |-> [node EXCEPT
                 !.file = saved.file,
                 !.chain_initialized = TRUE,
                 !.new_last_block = Append(@, blockchain.blocks[Len(blockchain.blocks)])],
     sent |-> NetworkEvent_send([chain |-> blockchain, type |-> "InitUsingChain"]),
     chosen |-> "none"]

\* an init command that does not look at the flag
InitAlways(num_sidelinks, node, io) ==
    InitSaved([num_sidelinks |-> num_sidelinks, blocks |-> <<Genesis>>], node,
              save_blockchain_to_file(<<Genesis>>, node.file, io[1]))

\* the init command of the shell, src/main.rs
HandleInitFromUser(num_sidelinks, node, io) ==
    IF node.chain_initialized THEN Ignored(node)
    ELSE InitSaved([num_sidelinks |-> num_sidelinks, blocks |-> <<Genesis>>], node,
                   save_blockchain_to_file(<<Genesis>>, node.file, io[1]))

-----------------------------------------------------------------------------
(* The input universe: the blocks a peer, honest or not, can put after a chain *)

SampleRecord(block_idx) ==
    [idx |-> <<block_idx, 1>>, timestamp |-> 1, data |-> 7, author_peer_id |-> 1]

\* the hashes a miner fills in: the blocks at the derived indices, in that order
HashesAt(c, indices) ==
    [k \in 1..Len(indices) |->
        IF indices[k] \in 1..Len(c) THEN Hash(c[indices[k]]) ELSE ZeroHash]

WithSidelinks(c, b) ==
    [b EXCEPT !.validation_sidelinks = HashesAt(c, derive_sidelink_indices(b))]

\* a block built on c[k] as a miner builds it
MinedOn(c, k, nonce, ns) ==
    WithSidelinks(c, [idx |-> c[k].idx + 1,
                      previous_block_hash |-> Hash(c[k]),
                      validation_sidelinks |-> <<>>,
                      num_sidelinks |-> ns,
                      pow |-> DecimalString(nonce),
                      timestamp |-> 1,
                      records |-> <<>>,
                      difficulty |-> Difficulty])

LeastOr0(good) ==
    IF good = {} THEN 0 ELSE CHOOSE n \in good : \A m \in good : n <= m

\* a nonce of the universe that satisfies the difficulty on top of c[k], if any
GoodNonce(c, k) ==
    LeastOr0({n \in 0..MaxNonce : Token(Hash(c[k]), n) < Difficulty})

NsChoices(c, k) == {0, Min(1, c[k].idx - 1)}

HonestBlocks(c) ==
    {MinedOn(c, Len(c), nonce, ns) :
        nonce \in 0..MaxNonce, ns \in NsChoices(c, Len(c))}

\* blocks built on an earlier block of the chain: out of position
StaleBlocks(c) ==
    {MinedOn(c, k, GoodNonce(c, k), 0) : k \in (Len(c) - 1)..(Len(c) - 1) \ {0}}

\* b is a block mined on the tip without sidelinks, b1 one with a sidelink
FaultsOf(b, b1, tip) ==
    { [b EXCEPT !.previous_block_hash = ZeroHash],
      [b EXCEPT !.validation_sidelinks = <<Hash(Genesis)>>],
      [b1 EXCEPT !.validation_sidelinks = <<>>],
      [b1 EXCEPT !.validation_sidelinks = <<ZeroHash>>],
      [b EXCEPT !.pow = <<>>],
      [b EXCEPT !.idx = @ + 1],
      [b EXCEPT !.idx = 0],
      [b EXCEPT !.difficulty = 0],
      [b EXCEPT !.records = <<SampleRecord(b.idx)>>],
      Genesis, tip }

FaultyBlocks(c) ==
    UNION {FaultsOf(MinedOn(c, Len(c), nonce, 0),
                    MinedOn(c, Len(c), nonce, Min(1, c[Len(c)].idx - 1)),
                    c[Len(c)]) : nonce \in {GoodNonce(c, Len(c))}}

Candidates(c) ==
    IF c = <<>> THEN {Genesis, [Genesis EXCEPT !.timestamp = 1]}
    ELSE HonestBlocks(c) \cup StaleBlocks(c) \cup FaultyBlocks(c)

NoBlock == [Genesis EXCEPT !.idx = 0]
NoResult == [op |-> "none"]
NoEvent == [type |-> "none"]
NoFile == [blocks |-> <<>>, exists |-> FALSE]

\* the mining task before it started
NotStarted ==
    [pc |-> "start",
     num_sidelinks |-> 0,
     difficulty |-> 0,
     last_block |-> NoBlock,
     new_block |-> NoBlock,
     num_sidelinks_in_attempt |-> 0,
     received_tip |-> NoBlock,
     emitted_since |-> 0,
     publication |-> "none"]

\* the node before it started: no file, nothing handled, the miner not started
NodeIdle ==
    /\ miner = NotStarted
    /\ new_record = <<>>
    /\ new_mined_block = <<>>
    /\ file = NoFile
    /\ chain_initialized = FALSE
    /\ new_last_block = <<>>
    /\ crashed = FALSE
    /\ last = NoEvent

-----------------------------------------------------------------------------
(* Validation harness: a context chain grows block by block from the input   *)
(* universe; every step hands the next block to validate_block (against the  *)
(* chain in memory, against the file, against a file that cannot be opened)   *)
(* and the context followed by the block to validate_chain                    *)

ValidationInit ==
    /\ overflow_checks \in BOOLEAN
    /\ pc = "start"
    /\ chain = <<>>
    /\ other = <<>>
    /\ block = NoBlock
    /\ result = NoResult
    /\ NodeIdle

\* the context is extended by the block validated last, accepted or not
NextContext == IF pc = "start" THEN <<>> ELSE Append(chain, block)

Validate(b) ==
    /\ pc \in {"start", "validated"}
    /\ Len(NextContext) < MaxChainLen
    /\ chain' = NextContext
    /\ block' = b
    /\ result' =
         [op |-> "validate",
          in_chain |-> validate_block(chain', b),
          in_file |-> validate_block_using_file(b, [blocks |-> chain', exists |-> TRUE]),
          no_file |-> validate_block_using_file(b, [blocks |-> <<>>, exists |-> FALSE]),
          whole_chain |-> validate_chain(Append(chain', b))]
    /\ pc' = "validated"
    /\ UNCHANGED <<overflow_checks, miner_vars, other, node_vars>>

ValidationNext ==
    \E b \in Candidates(NextContext) : Validate(b)

ValidationSpec == ValidationInit /\ [][ValidationNext]_vars

-----------------------------------------------------------------------------
(* Fork choice harness: a local and a remote chain grow block by block and   *)
(* every step applies find_longest_chain to the pair, in both orders          *)

\* a block on the tip with a good nonce, but not linked to the tip
Unlinked(b) == [b EXCEPT !.previous_block_hash = ZeroHash]

ForkCandidates(c) ==
    IF c = <<>> THEN {Genesis, [Genesis EXCEPT !.timestamp = 1]}
    ELSE {MinedOn(c, Len(c), nonce, 0) : nonce \in 0..MaxNonce}
         \cup {Genesis}
         \cup {Unlinked(MinedOn(c, Len(c), nonce, 0)) :
                  nonce \in {GoodNonce(c, Len(c))}}

\* an initialized node whose file holds the chain
StoreOf(local_chain) ==
    [file |-> [blocks |-> local_chain, exists |-> TRUE],
     chain_initialized |-> TRUE,
     new_last_block |-> <<>>,
     crashed |-> FALSE]

ChooseBothWays(local_chain, remote_chain) ==
    [choice |-> find_longest_chain(local_chain, remote_chain),
     op |-> "find_longest_chain",
     swapped |-> find_longest_chain(remote_chain, local_chain),
     local_valid |-> validate_chain(local_chain),
     remote_valid |-> validate_chain(remote_chain),
     handled |->
         [io \in IoOutcomes |->
             handle_remote_chain_if_local_initialized(
                 [num_sidelinks |-> NUM_SIDELINKS, blocks |-> remote_chain],
                 StoreOf(local_chain), "peer", <<io, io>>)]]

ForkInit ==
    /\ overflow_checks = FALSE
    /\ pc = "fork"
    /\ chain = <<>>
    /\ other = <<>>
    /\ block = NoBlock
    /\ result = ChooseBothWays(<<>>, <<>>)
    /\ NodeIdle

\* chain is the local chain, other the remote chain
ExtendLocal(b) ==
    /\ pc = "fork"
    /\ Len(chain) < MaxForkLen
    /\ chain' = Append(chain, b)
    /\ result' = ChooseBothWays(chain', other)
    /\ UNCHANGED <<overflow_checks, miner_vars, pc, other, block, node_vars>>

ExtendRemote(b) ==
    /\ pc = "fork"
    /\ Len(other) < MaxForkLen
    /\ other' = Append(other, b)
    /\ result' = ChooseBothWays(chain, other')
    /\ UNCHANGED <<overflow_checks, miner_vars, pc, chain, block, node_vars>>

ForkNext ==
    \/ \E b \in ForkCandidates(chain) : ExtendLocal(b)
    \/ \E b \in ForkCandidates(other) : ExtendRemote(b)

ForkSpec == ForkInit /\ [][ForkNext]_vars

-----------------------------------------------------------------------------
(* Sidelink harness: derive_sidelink_indices is applied to a block of any     *)
(* height and any num_sidelinks, and to a second block that agrees with it on *)
(* previous_block_hash, idx and num_sidelinks only                            *)

\* the previous block hashes of the input blocks
SidelinkSeeds ==
    {ZeroHash, Hash(Genesis), Hash([Genesis EXCEPT !.timestamp = 1])}

\* blocks of height 2..MaxHeight with 0..MaxSidelinks sidelinks
SidelinkInputs ==
    {[Genesis EXCEPT !.idx = h, !.previous_block_hash = seed, !.num_sidelinks = k] :
        h \in 2..MaxHeight, seed \in SidelinkSeeds, k \in 0..MaxSidelinks}

\* blocks that differ from b in the other fields
OtherFieldsOf(b) ==
    {b,
     [b EXCEPT !.pow = <<Digit0 + 1>>],
     [b EXCEPT !.timestamp = 1, !.records = <<SampleRecord(b.idx)>>],
     [b EXCEPT !.validation_sidelinks = <<Hash(Genesis)>>, !.difficulty = Difficulty]}

SidelinkInit ==
    /\ overflow_checks = FALSE
    /\ pc = "sidelinks"
    /\ chain = <<>>
    /\ other = <<>>
    /\ block = NoBlock
    /\ result = NoResult
    /\ NodeIdle

\* block is the first block, other holds the second one
Derive(b, b2) ==
    /\ pc = "sidelinks"
    /\ pc' = "derived"
    /\ block' = b
    /\ other' = <<b2>>
    /\ result' = [indices |-> derive_sidelink_indices(b),
                  op |-> "derive_sidelink_indices",
                  again |-> derive_sidelink_indices(b2)]
    /\ UNCHANGED <<overflow_checks, miner_vars, chain, node_vars>>

SidelinkNext ==
    \E b \in SidelinkInputs : \E b2 \in OtherFieldsOf(b) : Derive(b, b2)

SidelinkSpec == SidelinkInit /\ [][SidelinkNext]_vars

-----------------------------------------------------------------------------
(* The mining task, src/blockchain/pow.rs.  mine_blocks takes its first tip   *)
(* from the file or from the new_last_block channel, then repeats: an attempt *)
(* (prove_the_work) that polls the two channels now and then, and after it    *)
(* the choice between a tip that arrived meanwhile and publishing the block.  *)
(* The nonce search is abstracted: a poll can happen at any time during an    *)
(* attempt, and the attempt ends when a nonce below the difficulty is found.  *)

Timestamps == 1..MaxClock

\* the data of the records the user enters
RecordData == {7}

\* the data of the records where two records have to differ
PendingData == {7, 8}

\* the clamp of prove_the_work, at the start of an attempt and on a new tip
ClampSidelinks(num_sidelinks, block_idx) ==
    IF num_sidelinks >= block_idx - 1 THEN block_idx - 2 ELSE num_sidelinks

\* Block::new for the candidate block of an attempt
NewCandidate(last_block, num_sidelinks, difficulty, now) ==
    [idx |-> last_block.idx + 1,
     previous_block_hash |-> Hash(last_block),
     validation_sidelinks |-> <<>>,
     num_sidelinks |-> num_sidelinks,
     pow |-> <<>>,
     timestamp |-> now,
     records |-> <<>>,
     difficulty |-> difficulty]

\* Record::new
NewRecord(data, author_peer_id, now) ==
    [idx |-> <<0, 0>>, timestamp |-> now, data |-> data,
     author_peer_id |-> author_peer_id]

\* Block::add_record
add_record(b, record) ==
    [b EXCEPT !.records =
        Append(@, [record EXCEPT !.idx =
                      IF b.records = <<>> THEN <<b.idx, 1>>
                      ELSE <<b.idx, b.records[Len(b.records)].idx[2] + 1>>])]

\* a refresh that drops a record when the tip holds one with the same content,
\* whatever its number
RECURSIVE refresh_by_content(_, _, _, _)
refresh_by_content(records, tip_records, new_idx, record_counter) ==
    IF records = <<>> THEN <<>>
    ELSE IF \E k \in 1..Len(tip_records) :
                [tip_records[k] EXCEPT !.idx = <<0, 0>>]
                    = [Head(records) EXCEPT !.idx = <<0, 0>>]
    THEN refresh_by_content(Tail(records), tip_records, new_idx, record_counter)
    ELSE <<[Head(records) EXCEPT !.idx = <<new_idx, record_counter>>]>>
         \o refresh_by_content(Tail(records), tip_records, new_idx,
                               record_counter + 1)

\* the records of the candidate that the new tip does not contain, renumbered
RECURSIVE RefreshRecords(_, _, _, _)
RefreshRecords(records, tip_records, new_idx, record_counter) ==
    IF records = <<>> THEN <<>>
    ELSE IF \E k \in 1..Len(tip_records) : tip_records[k] = Head(records)
    THEN RefreshRecords(Tail(records), tip_records, new_idx, record_counter)
    ELSE <<[Head(records) EXCEPT !.idx = <<new_idx, record_counter>>]>>
         \o RefreshRecords(Tail(records), tip_records, new_idx, record_counter + 1)

\* prove_the_work when a new last block came through the channel
RebuildOn(new_block, new_tip, num_sidelinks) ==
    [new_block EXCEPT
        !.previous_block_hash = Hash(new_tip),
        !.idx = new_tip.idx + 1,
        !.num_sidelinks = ClampSidelinks(num_sidelinks, new_tip.idx + 1),
        !.records = RefreshRecords(new_block.records, new_tip.records,
                                   new_tip.idx + 1, 0)]

\* the blocks of the file at the given indices, in the order of the indices;
\* None (<<>>) when the file cannot be opened, else Some (<<blocks>>)
get_blocks_by_indices_from_file_in_given_order(indices, blockchain_file) ==
    IF ~blockchain_file.exists THEN <<>>
    ELSE << Flatten([k \in 1..Len(indices) |->
                       IF indices[k] \in 1..Len(blockchain_file.blocks)
                       THEN <<blockchain_file.blocks[indices[k]]>> ELSE <<>>]) >>

\* mine_blocks: the first last block comes from the file, or from the channel
\* when the file holds no block
MinerStarted(m, last_block) ==
    [m EXCEPT !.pc = "ready",
              !.num_sidelinks = last_block.num_sidelinks,
              !.difficulty = last_block.difficulty,
              !.last_block = last_block,
              !.received_tip = last_block]

\* prove_the_work up to its loop
AttemptBegun(m, now) ==
    [m EXCEPT !.pc = "proving",
              !.publication = "none",
              !.new_block =
                  NewCandidate(m.last_block,
                               ClampSidelinks(m.num_sidelinks, m.last_block.idx + 1),
                               m.difficulty, now),
              !.num_sidelinks_in_attempt =
                  ClampSidelinks(m.num_sidelinks, m.last_block.idx + 1)]

\* the poll of prove_the_work: at most one record, then at most one tip
PolledRecord(m, records) ==
    IF records = <<>> THEN m
    ELSE [m EXCEPT !.new_block = add_record(@, Head(records))]

PolledTip(m, tips) ==
    IF tips = <<>> THEN m
    ELSE [m EXCEPT !.new_block =
                      RebuildOn(@, Head(tips), m.num_sidelinks_in_attempt),
                   !.received_tip = Head(tips),
                   !.emitted_since = 0]

\* the chain of an honest network whose sidelink parameter is p
ExtendHonest(c, p) ==
    Append(c, MinedOn(c, Len(c), GoodNonce(c, Len(c)), Min(p, Len(c) - 1)))

RECURSIVE NetChain(_, _)
NetChain(p, h) ==
    IF h <= 1 THEN <<Genesis>> ELSE ExtendHonest(NetChain(p, h - 1), p)

SidelinkParameters == (0..MaxParameter) \cup {NUM_SIDELINKS}

\* the honest chains of every height the node can hand over, by parameter
HonestChains ==
    [p \in SidelinkParameters |-> [h \in 1..MaxTip |-> NetChain(p, h)]]

\* the configured sidelink parameter of the network the node is part of
Configured(p) == [num_sidelinks |-> p, op |-> "mine_blocks"]

MinerInit ==
    /\ overflow_checks = FALSE
    /\ pc = "miner"
    /\ chain = <<>>
    /\ other = <<>>
    /\ block = NoBlock
    /\ \E p \in SidelinkParameters :
          /\ result = Configured(p)
          /\ \/ file = NoFile
             \/ \E h \in 1..MaxTip : file = [blocks |-> HonestChains[p][h], exists |-> TRUE]
    /\ chain_initialized = file.exists
    /\ new_last_block = <<>>
    /\ crashed = FALSE
    /\ last = NoEvent
    /\ miner = NotStarted
    /\ new_record = <<>>
    /\ new_mined_block = <<>>

\* the node stores the chain up to height h and sends its tip to the miner
\* (the init command for h = 1, an adopted chain or an accepted proposal); a
\* chain that replaces the one in the file is longer than it
NodeSendsTip(h) ==
    /\ pc = "miner"
    /\ ~crashed
    /\ file.exists => h > Len(file.blocks)
    /\ Len(new_last_block) < MaxQueue
    /\ file' = [blocks |-> HonestChains[result.num_sidelinks][h], exists |-> TRUE]
    /\ chain_initialized' = TRUE
    /\ new_last_block' = Append(new_last_block, HonestChains[result.num_sidelinks][h][h])
    /\ UNCHANGED <<overflow_checks, harness_vars, crashed, last, miner_vars>>

\* the rec command of the shell: a new record is sent to the miner
UserSendsRecord(data, now) ==
    /\ pc = "miner"
    /\ ~crashed
    /\ Len(new_record) < MaxQueue
    /\ Len(miner.new_block.records) + Len(new_record) < MaxRecords
    /\ new_record' = Append(new_record, NewRecord(data, 1, now))
    /\ UNCHANGED <<overflow_checks, harness_vars, node_vars, miner, new_mined_block>>

MinerStartsFromFile ==
    /\ pc = "miner"
    /\ miner.pc = "start"
    /\ file.exists /\ file.blocks # <<>>
    /\ miner' = MinerStarted(miner, file.blocks[Len(file.blocks)])
    /\ UNCHANGED <<overflow_checks, harness_vars, node_vars, new_record, new_mined_block>>

\* no last block in the file: the task waits on the channel
MinerWaits ==
    /\ pc = "miner"
    /\ miner.pc = "start"
    /\ ~(file.exists /\ file.blocks # <<>>)
    /\ miner' = [miner EXCEPT !.pc = "waiting"]
    /\ UNCHANGED <<overflow_checks, harness_vars, node_vars, new_record, new_mined_block>>

MinerStartsFromChannel ==
    /\ pc = "miner"
    /\ miner.pc = "waiting"
    /\ new_last_block # <<>>
    /\ miner' = MinerStarted(miner, Head(new_last_block))
    /\ new_last_block' = Tail(new_last_block)
    /\ UNCHANGED <<overflow_checks, harness_vars, file, chain_initialized, crashed,
                   last, new_record, new_mined_block>>

\* the blocks of the file that no honest chain holds: the miner's own
OwnBlocks(blockchain_file, p) ==
    {k \in DOMAIN blockchain_file.blocks :
        \A h \in 1..MaxTip : \A j \in 1..h :
            HonestChains[p][h][j] # blockchain_file.blocks[k]}

\* the process goes down with the event loop: the task of the miner ends the
\* attempt it is in and begins no other
BeginAttempt(now) ==
    /\ pc = "miner"
    /\ miner.pc = "ready"
    /\ ~crashed
    /\ miner.last_block.idx <= MaxTip
    /\ Len(file.blocks) <= MaxTip
    /\ Cardinality(OwnBlocks(file, result.num_sidelinks)) < MaxMined
    /\ miner' = AttemptBegun(miner, now)
    /\ UNCHANGED <<overflow_checks, harness_vars, node_vars, new_record, new_mined_block>>

Poll ==
    /\ pc = "miner"
    /\ miner.pc = "proving"
    /\ new_record # <<>> \/ new_last_block # <<>>
    /\ miner' = PolledTip(PolledRecord(miner, new_record), new_last_block)
    /\ new_record' = IF new_record = <<>> THEN <<>> ELSE Tail(new_record)
    /\ new_last_block' = IF new_last_block = <<>> THEN <<>> ELSE Tail(new_last_block)
    /\ UNCHANGED <<overflow_checks, harness_vars, file, chain_initialized, crashed,
                   last, new_mined_block>>

\* the loop of prove_the_work ends with a nonce whose token is below the
\* difficulty
FindNonce(nonce) ==
    /\ pc = "miner"
    /\ miner.pc = "proving"
    /\ get_new_token(miner.new_block, nonce) < miner.difficulty
    /\ miner' = [miner EXCEPT !.pc = "mined",
                              !.new_block.pow = DecimalString(nonce)]
    /\ UNCHANGED <<overflow_checks, harness_vars, node_vars, new_record, new_mined_block>>

\* the select of mine_blocks when a tip is waiting: the mined block is dropped
Superseded ==
    /\ pc = "miner"
    /\ miner.pc = "mined"
    /\ new_last_block # <<>>
    /\ miner' = [miner EXCEPT !.pc = "ready",
                              !.last_block = Head(new_last_block),
                              !.received_tip = Head(new_last_block),
                              !.emitted_since = 0]
    /\ new_last_block' = Tail(new_last_block)
    /\ UNCHANGED <<overflow_checks, harness_vars, file, chain_initialized, crashed,
                   last, new_record, new_mined_block>>

\* the sidelinked blocks of the mined block, as found in the file
SidelinkedBlocks(mined_block, blockchain_file) ==
    get_blocks_by_indices_from_file_in_given_order(
        derive_sidelink_indices(mined_block), blockchain_file)

\* the mined block after add_sidelink for each of the sidelinked blocks
Sidelinked(mined_block, sidelinked_blocks) ==
    [mined_block EXCEPT !.validation_sidelinks =
        @ \o [k \in 1..Len(sidelinked_blocks) |-> Hash(sidelinked_blocks[k])]]

\* the block that is appended and sent
MinedBlock(m, blockchain_file) ==
    Sidelinked(m.new_block, SidelinkedBlocks(m.new_block, blockchain_file)[1])

\* the receiving end of new_mined_block is held by the event loop, and dropped
\* when the event loop has ended
Receiver(event_loop_ended) == IF event_loop_ended THEN "dropped" ELSE "open"

\* the select of mine_blocks when no tip is waiting: the sidelinks are filled
\* in, the block is appended to the file and sent to the event loop; the mined
\* block is the new last block when both succeeded, and when the send failed
\* remove_last_block_from_file is called
Publish(io, io_remove) ==
    /\ pc = "miner"
    /\ miner.pc = "mined"
    /\ new_last_block = <<>>
    /\ Len(new_mined_block) < MaxQueue
    /\ IF SidelinkedBlocks(miner.new_block, file) = <<>>
       THEN /\ miner' = [miner EXCEPT !.pc = "ready",
                                      !.publication = "lookup_failed"]
            /\ UNCHANGED <<file, new_mined_block>>
       ELSE IF ~append_block_to_file(MinedBlock(miner, file), file, io).ok
       THEN /\ miner' = [miner EXCEPT !.pc = "ready",
                                      !.publication = "append_failed"]
            /\ file' = append_block_to_file(MinedBlock(miner, file), file, io).file
            /\ UNCHANGED new_mined_block
       ELSE IF Receiver(crashed) = "dropped"
       THEN /\ miner' = [miner EXCEPT !.pc = "ready",
                                      !.publication = "send_failed"]
            /\ file' = remove_last_block_from_file(
                           append_block_to_file(MinedBlock(miner, file), file, io).file,
                           io_remove)
            /\ UNCHANGED new_mined_block
       ELSE /\ miner' = [miner EXCEPT !.pc = "ready",
                                      !.last_block = MinedBlock(miner, file),
                                      !.emitted_since = Min(@ + 1, 2),
                                      !.publication = "sent"]
            /\ file' = append_block_to_file(MinedBlock(miner, file), file, io).file
            /\ new_mined_block' = Append(new_mined_block, MinedBlock(miner, file))
    /\ UNCHANGED <<overflow_checks, harness_vars, chain_initialized, new_last_block,
                   crashed, last, new_record>>

\* gossipsub publish: with no subscribed peer (InsufficientPeers) nobody
\* receives what was published
Delivered(published, subscribers) ==
    IF subscribers = 0 THEN <<>> ELSE published

\* the event loop receives the mined block and sends it as a BlockProposal;
\* last keeps what the peers received
MainTakesMined(subscribers) ==
    /\ pc = "miner"
    /\ ~crashed
    /\ new_mined_block # <<>>
    /\ new_mined_block' = Tail(new_mined_block)
    /\ last' = [type |-> "mined",
                sent |-> Delivered(
                            NetworkEvent_send([block |-> Head(new_mined_block),
                                               type |-> "BlockProposal"]),
                            subscribers),
                subscribers |-> subscribers]
    /\ UNCHANGED <<overflow_checks, harness_vars, file, chain_initialized,
                   new_last_block, crashed, miner, new_record>>

\* the event loop ends with a panic when the standard input cannot be read
EventLoopEnds ==
    /\ pc = "miner"
    /\ ~crashed
    /\ crashed' = TRUE
    /\ UNCHANGED <<overflow_checks, harness_vars, file, chain_initialized,
                   new_last_block, last, miner_vars>>

MinerNext ==
    \/ \E h \in 1..MaxTip : NodeSendsTip(h)
    \/ \E data \in RecordData, now \in Timestamps : UserSendsRecord(data, now)
    \/ MinerStartsFromFile
    \/ MinerWaits
    \/ MinerStartsFromChannel
    \/ \E now \in Timestamps : BeginAttempt(now)
    \/ Poll
    \/ \E nonce \in 0..MaxNonce : FindNonce(nonce)
    \/ Superseded
    \/ \E io \in IoOutcomes, io_remove \in IoOutcomes : Publish(io, io_remove)
    \/ EventLoopEnds
    \/ \E subscribers \in 0..1 : MainTakesMined(subscribers)

MinerSpec == MinerInit /\ [][MinerNext]_vars

\* the steps of the mining task: it runs on a runtime of its own and is
\* scheduled whenever it can take a step; the search of prove_the_work comes
\* to every nonce
MinerSteps ==
    \/ MinerStartsFromFile
    \/ MinerWaits
    \/ MinerStartsFromChannel
    \/ \E now \in Timestamps : BeginAttempt(now)
    \/ Poll
    \/ \E nonce \in 0..MaxNonce : FindNonce(nonce)
    \/ Superseded
    \/ \E io \in IoOutcomes, io_remove \in IoOutcomes : Publish(io, io_remove)

\* the miner and the event loop under fair scheduling
FairMinerSpec ==
    /\ MinerInit
    /\ [][MinerNext]_vars
    /\ WF_vars(MinerSteps)
    /\ WF_vars(\E subscribers \in 0..1 : MainTakesMined(subscribers))

-----------------------------------------------------------------------------
(* The poll of prove_the_work with several messages waiting: between two     *)
(* polls (10000000 nonces apart) the user can enter several records and the *)
(* event loop can send several tips.                                          *)

\* the records the user entered since the last poll, oldest first
WaitingRecords ==
    UNION {[1..n -> {NewRecord(data, 1, 1) : data \in PendingData}] :
              n \in 0..MaxWaiting}

\* the tips the event loop sent since the last poll while the chain grew from
\* height h, oldest first
WaitingTips(p, h) ==
    {[k \in 1..n |-> HonestChains[p][h + k][h + k]] :
        n \in 0..Min(MaxWaiting, MaxTip - h)}

\* the miner is in an attempt on the tip of height h
PollInit ==
    /\ overflow_checks = FALSE
    /\ pc = "miner"
    /\ chain = <<>>
    /\ other = <<>>
    /\ block = NoBlock
    /\ \E p \in SidelinkParameters, h \in 1..(MaxTip - 1) :
          /\ result = Configured(p)
          /\ miner = AttemptBegun(MinerStarted(NotStarted, HonestChains[p][h][h]), 1)
          /\ new_last_block \in WaitingTips(p, h)
          /\ file = [blocks |-> HonestChains[p][h + Len(new_last_block)],
                     exists |-> TRUE]
    /\ new_record \in WaitingRecords
    /\ chain_initialized = TRUE
    /\ crashed = FALSE
    /\ last = NoEvent
    /\ new_mined_block = <<>>

PollNext ==
    \/ Poll
    \/ \E nonce \in 0..MaxNonce : FindNonce(nonce)

PollSpec == PollInit /\ [][PollNext]_vars

-----------------------------------------------------------------------------
(* The two token getters, applied to blocks and nonces as the test           *)
(* test_compare_token_getters does: block is the block, result the tokens.   *)

\* the nonces tried: one to three decimal digits, one and two non-zero bytes
MaxTokenNonce == 300

\* blocks that differ in the previous hash and in the other fields
TokenBlocks ==
    {[Genesis EXCEPT !.idx = idx, !.previous_block_hash = previous_block_hash,
                     !.pow = pow, !.timestamp = timestamp,
                     !.difficulty = difficulty] :
        idx \in 1..2,
        previous_block_hash \in {ZeroHash, Hash(Genesis)},
        pow \in {<<>>, DecimalString(1), <<PlusSign>>},
        timestamp \in 0..1,
        difficulty \in {0, Difficulty}}

TokenInit ==
    /\ overflow_checks = FALSE
    /\ pc = "block"
    /\ chain = <<>>
    /\ other = <<>>
    /\ block \in TokenBlocks
    /\ result = NoResult
    /\ file = NoFile
    /\ chain_initialized = FALSE
    /\ new_last_block = <<>>
    /\ crashed = FALSE
    /\ last = NoEvent
    /\ miner = NotStarted
    /\ new_record = <<>>
    /\ new_mined_block = <<>>

\* the body of the test: the nonce is written into pow with to_string, and
\* both getters are called
CompareTokenGetters(nonce) ==
    /\ pc = "block"
    /\ pc' = "tokens"
    /\ block' = [block EXCEPT !.pow = DecimalString(nonce)]
    /\ result' = [nonce |-> nonce,
                  token |-> get_new_token(block', nonce),
                  op |-> "compare_token_getters",
                  token2 |-> get_token_from_block(block')]
    /\ UNCHANGED <<overflow_checks, chain, other, node_vars, miner_vars>>

\* the next block to compare the getters on
NextTokenBlock ==
    /\ pc = "tokens"
    /\ pc' = "block"
    /\ block' \in TokenBlocks
    /\ result' = NoResult
    /\ UNCHANGED <<overflow_checks, chain, other, node_vars, miner_vars>>

TokenNext ==
    \/ \E nonce \in 0..MaxTokenNonce : CompareTokenGetters(nonce)
    \/ NextTokenBlock

TokenSpec == TokenInit /\ [][TokenNext]_vars

-----------------------------------------------------------------------------
(* The tip change inside prove_the_work, applied to candidates that hold     *)
(* records and to tips that hold records: block is the candidate, other the  *)
(* tip that came through the channel, result keeps the candidate before it.  *)

\* a block with the records of that data, numbered from first on; add_record
\* numbers from 1, the tip change from 0
RECURSIVE WithRecords(_, _, _)
WithRecords(b, data, first) ==
    IF data = <<>> THEN b
    ELSE [WithRecords(b, SubSeq(data, 1, Len(data) - 1), first) EXCEPT !.records =
             Append(@, [NewRecord(data[Len(data)], 1, 1) EXCEPT !.idx =
                           <<b.idx, first + Len(data) - 1>>])]

\* the tips another miner can have mined on the chain: with up to two records
TipsOn(c) ==
    {WithRecords(MinedOn(c, Len(c), GoodNonce(c, Len(c)), 0), data, first) :
        data \in UNION {[1..n -> PendingData] : n \in 0..2}, first \in 0..1}

TipChangeInit ==
    /\ overflow_checks = FALSE
    /\ pc = "candidate"
    /\ \E p \in SidelinkParameters, h \in 1..MaxStoreLen :
          /\ chain = HonestChains[p][h]
          /\ block = NewCandidate(HonestChains[p][h][h],
                                  ClampSidelinks(p, h + 1), Difficulty, 1)
    /\ other = <<>>
    /\ result = NoResult
    /\ NodeIdle

\* new_record_rx.try_recv gave a record: add_record
TakeRecord(data) ==
    /\ pc = "candidate"
    /\ Len(block.records) < MaxPending
    /\ block' = add_record(block, NewRecord(data, 1, 1))
    /\ UNCHANGED <<overflow_checks, miner_vars, node_vars, pc, chain, other, result>>

\* new_last_block_rx.try_recv gave a tip: the candidate is rebuilt on it
TipChange ==
    /\ pc = "candidate"
    /\ pc' = "rebuilt"
    /\ \E new_tip \in TipsOn(chain) :
          /\ other' = <<new_tip>>
          /\ block' = RebuildOn(block, new_tip, block.num_sidelinks)
    /\ result' = [op |-> "tip_change", before |-> block]
    /\ UNCHANGED <<overflow_checks, miner_vars, node_vars, chain>>

\* the attempt goes on with the rebuilt candidate, whose records the tip
\* change numbered from 0, on the chain that now ends with the tip
AttemptGoesOn ==
    /\ pc = "rebuilt"
    /\ Len(chain) < MaxStoreLen
    /\ pc' = "candidate"
    /\ chain' = Append(chain, other[1])
    /\ other' = <<>>
    /\ result' = NoResult
    /\ UNCHANGED <<overflow_checks, miner_vars, node_vars, block>>

TipChangeNext ==
    \/ \E data \in PendingData : TakeRecord(data)
    \/ TipChange
    \/ AttemptGoesOn

TipChangeSpec == TipChangeInit /\ [][TipChangeNext]_vars

-----------------------------------------------------------------------------
(* The operations on the chain file, applied to the files the node writes.   *)
(* chain keeps the blocks the file held at the start.                         *)

\* the files the node can hold: none, an empty one, a stored honest chain
StoredChains ==
    {<<>>} \cup {HonestChains[p][h] : p \in SidelinkParameters, h \in 1..MaxTip}

\* the index lists handed to get_blocks_by_indices_from_file
IndexLists(n) == UNION {[1..k -> 0..(MaxTip + 2)] : k \in 0..n}

\* the blocks handed to append_block_to_file
AppendedBlocks(c) == IF c = <<>> THEN {Genesis} ELSE HonestBlocks(c)

StoreInit ==
    /\ overflow_checks \in BOOLEAN
    /\ pc = "store"
    /\ chain \in StoredChains
    /\ other = <<>>
    /\ block = NoBlock
    /\ result = NoResult
    /\ \/ file = [blocks |-> chain, exists |-> TRUE]
       \/ chain = <<>> /\ file = NoFile
    /\ chain_initialized = FALSE
    /\ new_last_block = <<>>
    /\ crashed = FALSE
    /\ last = NoEvent
    /\ miner = NotStarted
    /\ new_record = <<>>
    /\ new_mined_block = <<>>

RemoveLastBlock(io) ==
    /\ pc = "store"
    /\ pc' = "removed"
    /\ file' = remove_last_block_from_file(file, io)
    /\ result' = [io |-> io, op |-> "remove_last_block_from_file"]
    /\ UNCHANGED <<overflow_checks, miner_vars, chain, other, block,
                   chain_initialized, new_last_block, crashed, last>>

GetBlocksByIndices ==
    /\ pc = "store"
    /\ pc' = "fetched"
    /\ \E indices \in IndexLists(MaxIndices) :
          /\ other' = indices
          /\ result' = [found |-> BlocksByIndicesFromFile(indices, file),
                        op |-> "get_blocks_by_indices_from_file"]
    /\ UNCHANGED <<overflow_checks, miner_vars, chain, block, node_vars>>

AppendBlock(io) ==
    /\ pc = "store"
    /\ pc' = "appended"
    /\ \E b \in AppendedBlocks(chain) :
          /\ block' = b
          /\ file' = append_block_to_file(b, file, io).file
          /\ result' = [ok |-> append_block_to_file(b, file, io).ok,
                        op |-> "append_block_to_file"]
    /\ UNCHANGED <<overflow_checks, miner_vars, chain, other,
                   chain_initialized, new_last_block, crashed, last>>

\* load_block_from_file and get_blockchain_length, on the file as it was
\* written or after a block was appended
LoadBlock(block_idx) ==
    /\ pc \in {"store", "appended"}
    /\ pc' = "loaded"
    /\ other' = <<block_idx>>
    /\ result' = [ok |-> pc = "appended" /\ result.ok,
                  panic |-> load_block_from_file(block_idx, file).panic,
                  found |-> load_block_from_file(block_idx, file).found,
                  op |-> "load_block_from_file",
                  length |-> get_blockchain_length(file),
                  after |-> pc]
    /\ UNCHANGED <<overflow_checks, miner_vars, chain, block, node_vars>>

StoreNext ==
    \/ \E io \in IoOutcomes : RemoveLastBlock(io)
    \/ GetBlocksByIndices
    \/ \E io \in IoOutcomes : AppendBlock(io)
    \/ \E block_idx \in 0..(MaxTip + 2) : LoadBlock(block_idx)

StoreSpec == StoreInit /\ [][StoreNext]_vars

-----------------------------------------------------------------------------
(* The node: the event loop of src/main.rs takes one event at a time, the    *)
(* user's init command or a gossip message from a peer, and runs its handler  *)
(* to the end.  The miner is the receiving end of the new_last_block channel. *)
(* last is the event of the loop: pending while it waits for its handler,     *)
(* afterwards the record of what the handler was given (the node before it,   *)
(* the sender) and what it published and chose.                               *)

LocalPeer == "local"
Peers == {"peer_a", "peer_b"}

RECURSIVE ChainsOfLen(_)
ChainsOfLen(n) ==
    IF n = 0 THEN {<<>>}
    ELSE UNION {{Append(c, b) : b \in ForkCandidates(c)} :
                    c \in {d \in ChainsOfLen(n - 1) : d = <<>> \/ d[1] = Genesis}}

\* the chains peers send: a chain with a wrong genesis block is not extended
NetChains ==
    {[num_sidelinks |-> NUM_SIDELINKS, blocks |-> c] :
        c \in UNION {ChainsOfLen(n) : n \in 0..MaxNetLen}}

\* the blocks peers propose to a node with that file
Malformed(b) == {[b EXCEPT !.idx = 0], [b EXCEPT !.pow = <<>>]}

NetBlocks(blockchain_file) ==
    IF blockchain_file.blocks = <<>> THEN ForkCandidates(<<>>)
    ELSE ForkCandidates(blockchain_file.blocks)
         \cup UNION {Malformed(b) : b \in ForkCandidates(blockchain_file.blocks) \ {Genesis}}

IoPairs == IoOutcomes \X IoOutcomes

Node ==
    [file |-> file,
     chain_initialized |-> chain_initialized,
     new_last_block |-> new_last_block,
     crashed |-> crashed]

Init ==
    /\ overflow_checks \in BOOLEAN
    /\ pc = "node"
    /\ chain = <<>>
    /\ other = <<>>
    /\ block = NoBlock
    /\ result = NoResult
    /\ NodeIdle

\* an event reaches the event loop
Arrives(event, received_from) ==
    /\ pc = "node"
    /\ ~crashed
    /\ last.type # "pending"
    /\ last' = [event |-> event, type |-> "pending", from |-> received_from]
    /\ UNCHANGED <<overflow_checks, miner_vars, harness_vars, file, chain_initialized,
                   new_last_block, crashed>>

UserInit(num_sidelinks) ==
    Arrives([num_sidelinks |-> num_sidelinks, type |-> "init"], LocalPeer)

RecvInitUsingChain(remote_chain, received_from) ==
    Arrives([chain |-> remote_chain, type |-> "InitUsingChain"], received_from)

RecvRemoteChainResponse(remote_chain, chain_receiver, received_from) ==
    Arrives([type |-> "RemoteChainResponse", chain_from_sender |-> remote_chain,
             chain_receiver |-> chain_receiver], received_from)

RecvBlockProposal(b, received_from) ==
    Arrives([block |-> b, type |-> "BlockProposal"], received_from)

RecvRemoteChainRequest(asked_peer_id, received_from) ==
    Arrives([type |-> "RemoteChainRequest", asked_peer_id |-> asked_peer_id],
            received_from)

RecvMessage(received_from) ==
    Arrives([type |-> "Message", message |-> "hello", from_peer_id |-> received_from],
            received_from)

\* gossip data that is not the text of an event: no JSON at all, or a variant
\* that NetworkEvent does not have
MalformedData == {[type |-> "no JSON"], [type |-> "NewRecord"]}

RecvMalformed(event_data, received_from) ==
    Arrives(event_data, received_from)

\* what the arm of the event loop does with the event
Outcome(event, received_from, io) ==
    IF event.type = "init"
    THEN HandleInitFromUser(event.num_sidelinks, Node, io)
    ELSE handle_incoming_network_event(event, Node, LocalPeer, received_from, io)

\* the handler of the pending event runs to its end
Handle(io) ==
    LET out == Outcome(last.event, last.from, io) IN
    /\ pc = "node"
    /\ last.type = "pending"
    /\ Len(out.node.new_last_block) <= MaxQueue
    /\ Len(out.node.file.blocks) <= MaxStoreLen
    /\ file' = out.node.file
    /\ chain_initialized' = out.node.chain_initialized
    /\ new_last_block' = out.node.new_last_block
    /\ crashed' = out.node.crashed
    /\ last' = [event |-> last.event, type |-> "handled", sent |-> out.sent,
                chosen |-> out.chosen, from |-> last.from, pre |-> Node]
    /\ UNCHANGED <<overflow_checks, miner_vars, harness_vars>>

\* the mining task receives the next tip from the channel
MinerTakesTip ==
    /\ pc = "node"
    /\ ~crashed
    /\ last.type # "pending"
    /\ new_last_block # <<>>
    /\ new_last_block' = Tail(new_last_block)
    /\ last' = [type |-> "tip_taken", tip |-> Head(new_last_block)]
    /\ UNCHANGED <<overflow_checks, miner_vars, harness_vars, file, chain_initialized, crashed>>

Next ==
    \/ UserInit(NUM_SIDELINKS)
    \/ \E remote_chain \in NetChains, p \in Peers :
          RecvInitUsingChain(remote_chain, p)
    \/ \E remote_chain \in NetChains, r \in {LocalPeer, "peer_a"}, p \in Peers :
          RecvRemoteChainResponse(remote_chain, r, p)
    \/ \E b \in NetBlocks(file), p \in Peers : RecvBlockProposal(b, p)
    \/ \E a \in {LocalPeer, "peer_a"}, p \in Peers : RecvRemoteChainRequest(a, p)
    \/ \E p \in Peers : RecvMessage(p)
    \/ \E event_data \in MalformedData, p \in Peers : RecvMalformed(event_data, p)
    \/ \E io \in IoPairs : Handle(io)
    \/ MinerTakesTip

Spec == Init /\ [][Next]_vars

-----------------------------------------------------------------------------
(* Block proposals on a node that holds a chain: gossip delivers a proposal  *)
(* to every subscriber and may deliver it again, so the blocks the file      *)
(* already holds are proposed beside those built on its last block.          *)

\* the blocks proposed to a node with that file
RedeliveredBlocks(blockchain_file) ==
    NetBlocks(blockchain_file)
    \cup {blockchain_file.blocks[i] : i \in 1..Len(blockchain_file.blocks)}

\* an initialized node holding an honest chain
RedeliveryInit ==
    /\ overflow_checks \in BOOLEAN
    /\ pc = "node"
    /\ chain = <<>>
    /\ other = <<>>
    /\ block = NoBlock
    /\ result = NoResult
    /\ miner = NotStarted
    /\ new_record = <<>>
    /\ new_mined_block = <<>>
    /\ \E p \in SidelinkParameters, h \in 1..MaxStoreLen :
          file = [blocks |-> HonestChains[p][h], exists |-> TRUE]
    /\ chain_initialized = TRUE
    /\ new_last_block = <<>>
    /\ crashed = FALSE
    /\ last = NoEvent

ProposalArrives ==
    /\ pc = "node"
    /\ ~crashed
    /\ last.type # "pending"
    /\ \E b \in RedeliveredBlocks(file), p \in Peers : RecvBlockProposal(b, p)

\* the handler of the pending proposal runs to its end; the file may grow by
\* one block beyond MaxStoreLen
HandleProposal(io) ==
    LET out == Outcome(last.event, last.from, io) IN
    /\ pc = "node"
    /\ last.type = "pending"
    /\ Len(out.node.new_last_block) <= MaxQueue
    /\ Len(out.node.file.blocks) <= MaxStoreLen + 1
    /\ file' = out.node.file
    /\ chain_initialized' = out.node.chain_initialized
    /\ new_last_block' = out.node.new_last_block
    /\ crashed' = out.node.crashed
    /\ last' = [event |-> last.event, type |-> "handled", sent |-> out.sent,
                chosen |-> out.chosen, from |-> last.from, pre |-> Node]
    /\ UNCHANGED <<overflow_checks, miner_vars, harness_vars>>

RedeliveryNext ==
    \/ ProposalArrives
    \/ \E io \in IoPairs : HandleProposal(io)
    \/ MinerTakesTip

RedeliverySpec == RedeliveryInit /\ [][RedeliveryNext]_vars

-----------------------------------------------------------------------------
(* Two initialized peers exchange their chains: the node variables are the   *)
(* peer LocalPeer, result.node is the peer RemotePeer, other holds the       *)
(* events that were published and not yet delivered, oldest first.  Mining   *)
(* is idle: nobody takes the tips from new_last_block.                       *)

RemotePeer == "peer_a"

\* the chains validate_chain accepts among those a peer can hold
ValidChains ==
    {c \in UNION {ChainsOfLen(n) : n \in 1..MaxChainLen} : validate_chain(c) = "ok"}

ExchangeInit ==
    /\ overflow_checks = FALSE
    /\ pc = "peers"
    /\ chain = <<>>
    /\ other = <<>>
    /\ block = NoBlock
    /\ \E local_chain \in ValidChains, remote_chain \in ValidChains :
          /\ file = [blocks |-> local_chain, exists |-> TRUE]
          /\ result = [local_chain |-> local_chain,
                       remote_chain |-> remote_chain,
                       node |-> StoreOf(remote_chain),
                       op |-> "exchange"]
    /\ chain_initialized = TRUE
    /\ new_last_block = <<>>
    /\ crashed = FALSE
    /\ last = NoEvent
    /\ miner = NotStarted
    /\ new_record = <<>>
    /\ new_mined_block = <<>>

\* the other peer of the two
OtherPeer(peer) == IF peer = LocalPeer THEN RemotePeer ELSE LocalPeer

\* the node of that peer
NodeOf(peer) == IF peer = LocalPeer THEN Node ELSE result.node

\* gossipsub hands what a peer published to the other peer
Published(sent, peer) ==
    [k \in 1..Len(sent) |-> [event |-> sent[k], from |-> peer, to |-> OtherPeer(peer)]]

\* a peer publishes the chain of its file as InitUsingChain
PeerBroadcasts(peer) ==
    /\ pc = "peers"
    /\ pc' = "exchange"
    /\ other' = Published(
                    NetworkEvent_send([chain |-> load_from_file(NodeOf(peer).file)[1],
                                       type |-> "InitUsingChain"]),
                    peer)
    /\ UNCHANGED <<overflow_checks, chain, block, result, node_vars, miner_vars>>

\* the oldest event in flight reaches its peer, whose handler runs to its end
Deliver(io) ==
    LET m == Head(other)
        out == handle_incoming_network_event(m.event, NodeOf(m.to), m.to, m.from, io)
    IN
    /\ pc = "exchange"
    /\ other # <<>>
    /\ other' = Tail(other) \o Published(out.sent, m.to)
    /\ IF m.to = LocalPeer
       THEN /\ file' = out.node.file
            /\ chain_initialized' = out.node.chain_initialized
            /\ new_last_block' = out.node.new_last_block
            /\ crashed' = out.node.crashed
            /\ result' = result
       ELSE /\ result' = [result EXCEPT !.node = out.node]
            /\ UNCHANGED <<file, chain_initialized, new_last_block, crashed>>
    /\ UNCHANGED <<overflow_checks, pc, chain, block, last, miner_vars>>

ExchangeNext ==
    \/ \E peer \in {LocalPeer, RemotePeer} : PeerBroadcasts(peer)
    \/ \E io \in IoPairs : Deliver(io)

ExchangeSpec == ExchangeInit /\ [][ExchangeNext]_vars

-----------------------------------------------------------------------------
(* Properties of validation, stated on the validation harness *)

Validated == pc = "validated"

\* the block was accepted against the chain in memory or against the file
Accepted == Validated /\ "ok" \in {result.in_chain, result.in_file}

\* C1: a block with idx >= 2 is accepted only if it carries exactly
\* num_sidelinks sidelink hashes and the j-th of them is the hash of the
\* context block at the j-th index of derive_sidelink_indices; a wrong, missing
\* or extra sidelink hash is rejected
C1_SidelinksVerified ==
    (Accepted /\ block.idx >= 2) =>
        LET indices == derive_sidelink_indices(block) IN
        /\ Len(block.validation_sidelinks) = block.num_sidelinks
        /\ Len(indices) = block.num_sidelinks
        /\ \A j \in 1..Len(indices) :
              /\ indices[j] \in 1..Len(chain)
              /\ block.validation_sidelinks[j] = Hash(chain[indices[j]])

\* C2: a chain accepted by validate_chain is non-empty, starts with the
\* genesis block and holds at position i (from 1) a block whose idx is i, so it
\* repeats no block
C2_ChainWellIndexed ==
    (Validated /\ result.whole_chain = "ok") =>
        LET c == Append(chain, block) IN
        /\ c[1] = Genesis
        /\ \A i \in 1..Len(c) : c[i].idx = i
        /\ \A i, j \in 1..Len(c) : c[i] = c[j] => i = j

\* C3: a block with idx >= 2 that is accepted has, at index idx - 1 of the
\* context, a block whose idx is idx - 1 and whose hash is the block's
\* previous_block_hash; without a block at that index, or without a readable
\* file, validation fails
C3_PredecessorLinked ==
    (Validated /\ block.idx >= 2) =>
        /\ Accepted =>
              /\ block.idx - 1 \in 1..Len(chain)
              /\ chain[block.idx - 1].idx = block.idx - 1
              /\ Hash(chain[block.idx - 1]) = block.previous_block_hash
        /\ block.idx - 1 \notin 1..Len(chain) =>
              result.in_chain = "reject" /\ result.in_file = "reject"
        /\ result.no_file = "reject"

\* a third block accepted on top of its predecessor, and refused without the file
C3_Witness ==
    /\ Validated
    /\ block.idx = 3
    /\ result.in_chain = "ok"
    /\ result.in_file = "ok"
    /\ result.no_file = "reject"

\* the token of a block with a decimal pow
TokenOf(b) == Token(b.previous_block_hash, ParseU64(b.pow).val)

\* C4: a non-genesis block is accepted only if the token computed from its
\* previous_block_hash and the nonce parsed from its pow is strictly less than
\* its difficulty; with its pow replaced by a nonce that does not satisfy the
\* difficulty an accepted block is rejected
C4_ProofOfWorkStrict ==
    (Validated /\ block.idx >= 2) =>
        /\ Accepted =>
              /\ ParseU64(block.pow).ok
              /\ TokenOf(block) < block.difficulty
        /\ ParseU64(block.pow).ok /\ TokenOf(block) >= block.difficulty =>
              "ok" \notin {result.in_chain, result.in_file}
        /\ Accepted =>
              \A n \in 0..MaxNonce :
                  LET forged == [block EXCEPT !.pow = DecimalString(n)] IN
                  TokenOf(forged) >= block.difficulty =>
                      /\ validate_block(chain, forged) = "reject"
                      /\ validate_block_using_file(
                             forged, [blocks |-> chain, exists |-> TRUE]) = "reject"

\* a block whose token equals its difficulty, and one that is below it
C4_Witness ==
    /\ Validated
    /\ block.idx >= 2
    /\ ParseU64(block.pow).ok
    /\ TokenOf(block) = block.difficulty
    /\ result.in_chain = "reject"
    /\ \E n \in 0..MaxNonce :
          LET mined == [block EXCEPT !.pow = DecimalString(n)] IN
          /\ TokenOf(mined) < block.difficulty
          /\ validate_block(chain, mined) = "ok"

-----------------------------------------------------------------------------
(* Properties of fork choice, stated on the fork choice harness *)

Compared == pc = "fork" /\ result.op = "find_longest_chain"

TipBytes(c) == HashBytes(Hash(c[Len(c)]))

Chosen(type, c) == [chosen_chain_type |-> type, chosen_chain |-> c]

\* C5: between two chains that both validate the strictly longer one wins; at
\* equal length the one with the smaller tip hash wins; with equal tip hashes
\* the result is Both and no chain is chosen
C5_ForkChoiceRule ==
    (Compared /\ result.local_valid = "ok" /\ result.remote_valid = "ok") =>
        /\ Len(chain) > Len(other) => result.choice = Chosen("Local", chain)
        /\ Len(chain) < Len(other) => result.choice = Chosen("Remote", other)
        /\ Len(chain) = Len(other) =>
              /\ BytesLess(TipBytes(chain), TipBytes(other)) =>
                    result.choice = Chosen("Local", chain)
              /\ BytesLess(TipBytes(other), TipBytes(chain)) =>
                    result.choice = Chosen("Remote", other)
              /\ chain[Len(chain)] = other[Len(other)] =>
                    result.choice = Chosen("Both", <<>>)
              /\ \/ BytesLess(TipBytes(chain), TipBytes(other))
                 \/ BytesLess(TipBytes(other), TipBytes(chain))
                 \/ chain[Len(chain)] = other[Len(other)]

\* two valid chains of the same length with different tips; the local tip is smaller
C5_Witness ==
    /\ Compared
    /\ result.local_valid = "ok"
    /\ result.remote_valid = "ok"
    /\ Len(chain) = Len(other)
    /\ Len(chain) >= 2
    /\ BytesLess(TipBytes(chain), TipBytes(other))
    /\ result.choice = Chosen("Local", chain)

Mirror(type) ==
    IF type = "Local" THEN "Remote"
    ELSE IF type = "Remote" THEN "Local"
    ELSE type

\* C6: find_longest_chain(L, R) and find_longest_chain(R, L) select the same
\* chain: Local in one is Remote in the other, Both and NoChain are returned
\* by both
C6_ForkChoiceSymmetric ==
    Compared =>
        /\ result.swapped.chosen_chain_type = Mirror(result.choice.chosen_chain_type)
        /\ result.swapped.chosen_chain = result.choice.chosen_chain

\* two valid chains of the same length with different tips; the remote tip is smaller
C6_Witness ==
    /\ Compared
    /\ result.local_valid = "ok"
    /\ result.remote_valid = "ok"
    /\ Len(chain) = Len(other)
    /\ chain # other
    /\ result.choice = Chosen("Remote", other)
    /\ result.swapped = Chosen("Local", other)

\* C7: when exactly one of the two chains validates it is selected whatever
\* the lengths; when neither validates NoChain is selected and the node that
\* handles the remote chain leaves its store unchanged
C7_OnlyValidChainWins ==
    Compared =>
        /\ (result.local_valid = "ok" /\ result.remote_valid = "reject") =>
              result.choice = Chosen("Local", chain)
        /\ (result.local_valid = "reject" /\ result.remote_valid = "ok") =>
              result.choice = Chosen("Remote", other)
        /\ (result.local_valid = "reject" /\ result.remote_valid = "reject") =>
              /\ result.choice = Chosen("NoChain", <<>>)
              /\ \A io \in IoOutcomes :
                    /\ result.handled[io].chosen = "NoChain"
                    /\ result.handled[io].node = StoreOf(chain)
                    /\ result.handled[io].sent = <<>>

\* a valid chain wins against a longer invalid one, and the other way round
\* nothing is chosen between two invalid chains
C7_Witness ==
    /\ Compared
    /\ result.local_valid = "ok"
    /\ result.remote_valid = "reject"
    /\ Len(other) > Len(chain)
    /\ result.choice = Chosen("Local", chain)

\* neither chain validates: nothing chosen, the store is as before
C7_WitnessNoChain ==
    /\ Compared
    /\ result.local_valid = "reject"
    /\ result.remote_valid = "reject"
    /\ Len(chain) >= 2
    /\ Len(other) >= 2
    /\ \A io \in IoOutcomes : result.handled[io].node.file.blocks = chain

-----------------------------------------------------------------------------
(* Properties of the node, stated on the node specification *)

\* the event loop has just handled a chain sent to this node while the node
\* was initialized
ChainHandled ==
    /\ pc = "node"
    /\ last.type = "handled"
    /\ last.pre.chain_initialized
    /\ \/ last.event.type = "InitUsingChain"
       \/ /\ last.event.type = "RemoteChainResponse"
          /\ last.event.chain_receiver = LocalPeer

\* the chain that was received
ReceivedChain ==
    IF last.event.type = "InitUsingChain" THEN last.event.chain
    ELSE last.event.chain_from_sender

C9_LocalChainSentBack ==
    (ChainHandled /\ last.chosen = "Local") =>
        /\ last.sent = << [type |-> "RemoteChainResponse",
                           chain_from_sender |->
                               [num_sidelinks |-> NUM_SIDELINKS,
                                blocks |-> last.pre.file.blocks],
                           chain_receiver |-> last.from] >>
        /\ file = last.pre.file
        /\ new_last_block = last.pre.new_last_block

\* the event loop has just handled a block proposal
ProposalHandled ==
    /\ pc = "node"
    /\ last.type = "handled"
    /\ last.event.type = "BlockProposal"

\* C10: when a proposed block B validates against the store, the store
\* afterwards is its previous content followed by B and the miner is notified
\* of B; the miner is notified of B only if B was appended to the store
C10_ProposalAppended ==
    ProposalHandled =>
        /\ validate_block_using_file(last.event.block, last.pre.file) = "ok" =>
              /\ file.exists
              /\ file.blocks = Append(last.pre.file.blocks, last.event.block)
              /\ new_last_block = Append(last.pre.new_last_block, last.event.block)
        /\ new_last_block # last.pre.new_last_block =>
              /\ file.exists
              /\ file.blocks = Append(last.pre.file.blocks, last.event.block)

\* C11: when a proposed block fails validation against the store, the store
\* is unchanged, the miner is not notified, and the node emits
\* RemoteChainRequest whose asked_peer_id is the peer the proposal came from
C11_InvalidProposalAsksChain ==
    (ProposalHandled
     /\ validate_block_using_file(last.event.block, last.pre.file) = "reject") =>
        /\ file = last.pre.file
        /\ new_last_block = last.pre.new_last_block
        /\ last.sent = << [type |-> "RemoteChainRequest",
                           asked_peer_id |-> last.from] >>

\* C12: while chain_initialized is false no block proposal, the canonical
\* genesis block included, modifies the store or sends a new tip to the miner
C12_ProposalNeedsInitialized ==
    (ProposalHandled /\ ~last.pre.chain_initialized) =>
        /\ file = last.pre.file
        /\ new_last_block = last.pre.new_last_block

\* a chain was sent to this node (InitUsingChain, or RemoteChainResponse
\* addressed to it)
ChainEvent ==
    \/ last.event.type = "InitUsingChain"
    \/ /\ last.event.type = "RemoteChainResponse"
       /\ last.event.chain_receiver = LocalPeer

\* the event loop has just handled a chain sent to this node while the node
\* was not initialized
ChainReachedUninitialized ==
    /\ pc = "node"
    /\ last.type = "handled"
    /\ ~last.pre.chain_initialized
    /\ ChainEvent

\* the node after it adopted the chain: the file holds the blocks, the flag is
\* set and the tip was added to the miner's channel
Adopted(c, node, before) ==
    /\ node.file = [blocks |-> c.blocks, exists |-> TRUE]
    /\ node.chain_initialized
    /\ node.new_last_block = Append(before.new_last_block, c.blocks[Len(c.blocks)])

\* the file after a failed attempt to write it: untouched, or created empty
FileAfterFailedSave(before) ==
    {before.file, [blocks |-> <<>>, exists |-> TRUE]}

\* C13 as stated: when an uninitialized node receives a chain C, if C
\* validates the store becomes exactly C.blocks, chain_initialized becomes
\* true and the miner is notified with C's last block; otherwise the store
\* and chain_initialized are unchanged and the miner is not notified
C13_AsStated ==
    ChainReachedUninitialized =>
        IF validate_chain(ReceivedChain.blocks) = "ok"
        THEN Adopted(ReceivedChain, Node, last.pre)
        ELSE /\ file = last.pre.file
             /\ chain_initialized = last.pre.chain_initialized
             /\ new_last_block = last.pre.new_last_block

\* C13 amended: when an uninitialized node receives a chain C that validates
\* and the chain file is written, the store becomes exactly C.blocks,
\* chain_initialized becomes true and the miner is notified with C's last
\* block; when C validates and the file cannot be written, chain_initialized
\* stays false, the miner is not notified and the file is untouched or left
\* empty; when C does not validate, the store and chain_initialized are
\* unchanged and the miner is not notified
C13_UninitializedAdopts ==
    /\ ChainReachedUninitialized =>
          IF validate_chain(ReceivedChain.blocks) = "ok"
          THEN \/ Adopted(ReceivedChain, Node, last.pre)
               \/ /\ file \in FileAfterFailedSave(last.pre)
                  /\ ~chain_initialized
                  /\ new_last_block = last.pre.new_last_block
          ELSE /\ file = last.pre.file
               /\ chain_initialized = last.pre.chain_initialized
               /\ new_last_block = last.pre.new_last_block
    /\ (pc = "node" /\ last.type = "pending" /\ ~chain_initialized /\ ChainEvent
        /\ validate_chain(ReceivedChain.blocks) = "ok") =>
          \A io \in IoPairs :
              IF io[1] = "ok"
              THEN Adopted(ReceivedChain, Outcome(last.event, last.from, io).node, Node)
              ELSE ~Outcome(last.event, last.from, io).node.chain_initialized

\* an uninitialized node adopted a valid chain of two blocks
C13_Witness ==
    /\ ChainReachedUninitialized
    /\ validate_chain(ReceivedChain.blocks) = "ok"
    /\ Len(ReceivedChain.blocks) = 2
    /\ Adopted(ReceivedChain, Node, last.pre)

\* the event loop has just handled the init command of the local user
InitHandled ==
    /\ pc = "node"
    /\ last.type = "handled"
    /\ last.event.type = "init"

\* C14: the init command on an uninitialized node leaves the store holding
\* exactly the canonical genesis block, sets chain_initialized, notifies the
\* miner with genesis as the tip and broadcasts InitUsingChain carrying the
\* genesis-only chain
C14_InitCreatesGenesisStore ==
    (InitHandled /\ ~last.pre.chain_initialized) =>
        /\ file = [blocks |-> <<Genesis>>, exists |-> TRUE]
        /\ chain_initialized
        /\ new_last_block = Append(last.pre.new_last_block, Genesis)
        /\ last.sent = << [chain |-> [num_sidelinks |-> last.event.num_sidelinks,
                                      blocks |-> <<Genesis>>],
                           type |-> "InitUsingChain"] >>

\* an init command given to an initialized node changed nothing and sent
\* nothing
InitIgnoredWhenSet ==
    (InitHandled /\ last.pre.chain_initialized) =>
        /\ file = last.pre.file
        /\ chain_initialized
        /\ new_last_block = last.pre.new_last_block
        /\ last.sent = <<>>

\* C15: chain_initialized is a one-shot latch: no step resets it, so it
\* changes at most once, from false to true; and an init command given while
\* it is true is ignored (store unchanged, no tip for the miner, no broadcast)
C15_InitializedLatch ==
    [][(chain_initialized => chain_initialized') /\ InitIgnoredWhenSet']_vars

\* an init command reached a node that holds a chain and was ignored
C15_Witness ==
    /\ InitHandled
    /\ last.pre.chain_initialized
    /\ chain_initialized
    /\ file.blocks # <<>>
    /\ file = last.pre.file

\* the event handled last was a Message, a RemoteChainRequest asking another
\* peer, or a RemoteChainResponse for another peer
ForeignEventHandled ==
    /\ pc = "node"
    /\ last.type = "handled"
    /\ \/ last.event.type = "Message"
       \/ /\ last.event.type = "RemoteChainRequest"
          /\ last.event.asked_peer_id # LocalPeer
       \/ /\ last.event.type = "RemoteChainResponse"
          /\ last.event.chain_receiver # LocalPeer

\* C16: Message events, RemoteChainRequest events asking another peer and
\* RemoteChainResponse events for another peer leave the store,
\* chain_initialized and the miner's channel unchanged and send nothing
C16_ForeignEventsIgnored ==
    ForeignEventHandled =>
        /\ file = last.pre.file
        /\ chain_initialized = last.pre.chain_initialized
        /\ new_last_block = last.pre.new_last_block
        /\ ~crashed
        /\ last.sent = <<>>

\* a valid chain longer than the store, addressed to another peer, passed by
C16_Witness ==
    /\ ForeignEventHandled
    /\ last.event.type = "RemoteChainResponse"
    /\ chain_initialized
    /\ validate_chain(last.event.chain_from_sender.blocks) = "ok"
    /\ Len(last.event.chain_from_sender.blocks) > Len(file.blocks)
    /\ file = last.pre.file

-----------------------------------------------------------------------------
(* Properties of the sidelink derivation, stated on the sidelink harness *)

\* derive_sidelink_indices was applied to block and to the block in other
Derived == pc = "derived"

\* C17: two invocations of derive_sidelink_indices on blocks with the same
\* previous_block_hash, idx and num_sidelinks return the same ordered list,
\* whatever the other fields of the blocks are
C17_SidelinksDeterministic ==
    (Derived
     /\ other[1].previous_block_hash = block.previous_block_hash
     /\ other[1].idx = block.idx
     /\ other[1].num_sidelinks = block.num_sidelinks) =>
        result.again = result.indices

\* two blocks that differ in pow, sidelink hashes, records, timestamp or
\* difficulty got the same list of two or more shuffled indices
C17_Witness ==
    /\ Derived
    /\ other[1] # block
    /\ block.num_sidelinks < block.idx - 1
    /\ Len(result.indices) >= 2
    /\ result.again = result.indices

\* C18: for a block of height h >= 2 and any num_sidelinks, every index
\* returned by derive_sidelink_indices lies in 1..h-2 and no index is
\* returned twice
C18_SidelinkDomain ==
    (Derived /\ block.idx >= 2) =>
        /\ \A i \in 1..Len(result.indices) :
              result.indices[i] \in 1..(block.idx - 2)
        /\ \A i, j \in 1..Len(result.indices) :
              i # j => result.indices[i] # result.indices[j]

\* the swaps moved the candidates: the list returned is not the tail of
\* 1..h-2 in ascending order
C18_Witness ==
    /\ Derived
    /\ block.num_sidelinks >= 2
    /\ block.num_sidelinks < block.idx - 1
    /\ result.indices #
          [i \in 1..block.num_sidelinks |-> block.idx - 2 - block.num_sidelinks + i]
    /\ \A i, j \in 1..Len(result.indices) :
          i # j => result.indices[i] # result.indices[j]

\* C19 as stated: for a block of height h >= 2 with num_sidelinks k the list
\* returned by derive_sidelink_indices has length min(k, h-1)
C19_AsStated ==
    (Derived /\ block.idx >= 2) =>
        Len(result.indices) = Min(block.num_sidelinks, block.idx - 1)

\* C19 amended: for a block of height h >= 2 with num_sidelinks k the list
\* returned by derive_sidelink_indices has length min(k, h-2); when
\* k >= h-1 it is the list 1..h-2 in ascending order
C19_SidelinkCount ==
    (Derived /\ block.idx >= 2) =>
        /\ Len(result.indices) = Min(block.num_sidelinks, block.idx - 2)
        /\ block.num_sidelinks >= block.idx - 1 =>
              result.indices = [i \in 1..(block.idx - 2) |-> i]

\* a block of height 4 or more asked for more sidelinks than it has
\* candidates and got every candidate
C19_Witness ==
    /\ Derived
    /\ block.idx >= 4
    /\ block.num_sidelinks >= block.idx - 1
    /\ Len(result.indices) = block.idx - 2

-----------------------------------------------------------------------------
(* Properties of the mining task *)

MinerHasCandidate == pc = "miner" /\ miner.pc \in {"proving", "mined"}

\* C20: every candidate block the miner builds for height h, at the start of
\* an attempt and after every tip change, has num_sidelinks = min(p, h - 2),
\* where p is the sidelink parameter the network is configured with.  Does not
\* hold: the miner takes the count from its first last block and clamps it
\* once per attempt.
C20_CandidateSidelinks ==
    MinerHasCandidate =>
        miner.new_block.num_sidelinks =
            Min(result.num_sidelinks, miner.new_block.idx - 2)

\* the first block the miner emitted since it received its latest tip: after a
\* successful publication it is the miner's last block
FirstEmittedSinceTip == pc = "miner" /\ miner.emitted_since = 1

\* C21: once the miner has received a new tip T1, the next block it emits is
\* built on T1 (idx = T1.idx + 1, previous_block_hash = hash(T1)), never on the
\* superseded tip.  Does not hold: a tip taken by the poll of an attempt does
\* not replace last_block of mine_blocks, so after a publication that failed
\* the next attempt is built on the superseded tip again.
C21_EmittedOnReceivedTip ==
    FirstEmittedSinceTip =>
        /\ miner.last_block.idx = miner.received_tip.idx + 1
        /\ miner.last_block.previous_block_hash = Hash(miner.received_tip)

\* the step of mine_blocks that tries to publish the mined block
PublishStep == miner.pc = "mined" /\ new_last_block = <<>> /\ miner'.pc = "ready"

\* C22: a mined block is sent on new_mined_block only after it was appended to
\* the file; when the send fails the file is returned to its content before
\* the append; when the append fails the block is not sent.  Does not hold:
\* after a failed send the appended block stays in the file.
C22_PublishAppendsThenSends ==
    [][PublishStep =>
          /\ miner'.publication = "sent" =>
                /\ file'.blocks = Append(file.blocks, miner'.last_block)
                /\ new_mined_block' = Append(new_mined_block, miner'.last_block)
          /\ miner'.publication = "send_failed" =>
                file' = file /\ new_mined_block' = new_mined_block
          /\ miner'.publication = "append_failed" =>
                new_mined_block' = new_mined_block]_vars

-----------------------------------------------------------------------------
(* Properties of the operations on the chain file *)

\* remove_last_block_from_file has returned without an error of the file system
Removed == pc = "removed" /\ result.io = "ok" /\ file.exists

\* C23: remove_last_block_from_file on a file of n >= 1 blocks leaves exactly
\* the first n - 1 blocks, and changes nothing in an empty file.  Does not
\* hold: the file is cut after its last block, so the n blocks stay.
C23_RemoveLastBlock ==
    Removed =>
        file.blocks = IF chain = <<>> THEN <<>> ELSE SubSeq(chain, 1, Len(chain) - 1)

-----------------------------------------------------------------------------
(* Properties of the event loop's handling of a mined block *)

\* the event loop takes a mined block while no peer is subscribed
MinedBlockNotDelivered ==
    /\ pc = "miner"
    /\ new_mined_block # <<>>
    /\ new_mined_block' = Tail(new_mined_block)
    /\ last'.subscribers = 0

InFile(b, blockchain_file) ==
    \E i \in 1..Len(blockchain_file.blocks) : blockchain_file.blocks[i] = b

\* C24: when publishing a mined block fails because no peer is subscribed,
\* the node removes that block from its file.  Does not hold: the event loop
\* neither publishes the block nor touches the file.
C24_UndeliveredBlockRemoved ==
    [][MinedBlockNotDelivered => ~InFile(Head(new_mined_block), file')]_vars

-----------------------------------------------------------------------------
(* Properties of the event loop's handling of malformed gossip data *)

\* the event loop has just handled gossip data that is not the text of an event
MalformedHandled ==
    /\ pc = "node"
    /\ last.type = "handled"
    /\ last.event \in MalformedData

\* C25: malformed gossip data is dropped: the file, the flag and the channel to
\* the miner are as before and the node has not crashed.  Does not hold:
\* from_string panics.
C25_MalformedDropped ==
    MalformedHandled =>
        /\ ~crashed
        /\ file = last.pre.file
        /\ chain_initialized = last.pre.chain_initialized
        /\ new_last_block = last.pre.new_last_block

-----------------------------------------------------------------------------
(* Properties of the records in the block being mined *)

\* an attempt is running while a record and a new tip are both on their way to
\* the miner
RecordAndTipPending ==
    /\ pc = "miner"
    /\ miner.pc = "proving"
    /\ new_record # <<>>
    /\ new_last_block # <<>>

\* C26: a new tip and a new record that reach the miner in either order give
\* the same candidate block, with the same records and the same record idx:
\* the record taken before the tip change (as one poll takes them) and the
\* record taken by a later poll, after the tip change.  Does not hold: the tip
\* change renumbers the pending records from 0, add_record numbers from 1.
C26_RecordAndTipCommute ==
    RecordAndTipPending =>
        PolledTip(PolledRecord(miner, new_record), new_last_block).new_block
            = PolledRecord(PolledTip(miner, new_last_block), new_record).new_block

\* the records of the block are numbered (idx of the block, 1), (.., 2), ...
WellNumbered(b) ==
    \A k \in 1..Len(b.records) : b.records[k].idx = <<b.idx, k>>

\* C27: in every block the miner emits, the record at position k has
\* idx = (idx of the block, k), also after tip changes renumbered the pending
\* records.  Does not hold: the tip change numbers the records from 0.
C27_EmittedRecordsNumbered ==
    pc = "miner" =>
        \A i \in 1..Len(new_mined_block) : WellNumbered(new_mined_block[i])

-----------------------------------------------------------------------------
(* Agreement of the miner and the validator *)

\* the file before its last block was appended
Before(blockchain_file) ==
    [blockchain_file EXCEPT !.blocks = SubSeq(@, 1, Len(@) - 1)]

\* b is built on the last block of the file
ExtendsTip(b, blockchain_file) ==
    /\ blockchain_file.blocks # <<>>
    /\ b.idx = blockchain_file.blocks[Len(blockchain_file.blocks)].idx + 1
    /\ b.previous_block_hash =
          Hash(blockchain_file.blocks[Len(blockchain_file.blocks)])

\* the miner has just emitted its last block: it is the last block of the
\* file, and it was mined on the tip of the file it was appended to
EmittedOnStore ==
    /\ pc = "miner"
    /\ miner.pc = "ready"
    /\ miner.publication = "sent"
    /\ file.blocks # <<>>
    /\ file.blocks[Len(file.blocks)] = miner.last_block
    /\ ExtendsTip(miner.last_block, Before(file))

Requested(indices, blocks) ==
    {i \in 1..Len(blocks) : \E k \in 1..Len(indices) : indices[k] = i}

\* the k-th smallest member of a set of numbers
Nth(S, k) == CHOOSE i \in S : Cardinality({j \in S : j <= i}) = k

\* get_blocks_by_indices_from_file has been called on an existing file
Fetched == pc = "fetched" /\ file.exists

\* C29: get_blocks_by_indices_from_file with the index list S on a file of n
\* blocks returns exactly the blocks whose 1-based number is in S and in 1..n,
\* in ascending order of their number and each once; indices that name no
\* block (0, or above n) are skipped, and the file is not modified.
C29_BlocksByIndices ==
    Fetched =>
        /\ result.found # <<>>
        /\ Len(result.found[1]) = Cardinality(Requested(other, chain))
        /\ \A k \in 1..Len(result.found[1]) :
              result.found[1][k] = chain[Nth(Requested(other, chain), k)]
        /\ file = [blocks |-> chain, exists |-> TRUE]

\* the list holds 0 and an index above n, and two blocks of the file in
\* descending order, one of them twice
C29_Witness ==
    /\ Fetched
    /\ Len(chain) = 3
    /\ other = <<0, 3, 5, 1, 3>>
    /\ result.found = << <<chain[1], chain[3]>> >>

\* load_block_from_file has been called on an existing file
Loaded == pc = "loaded" /\ file.exists

\* the call followed an append_block_to_file that succeeded
LoadedAfterAppend == Loaded /\ result.after = "appended" /\ result.ok

\* C30: append_block_to_file(B) on a file of n blocks makes the length n + 1
\* and the block n + 1 is B, while the blocks 1..n are unchanged;
\* load_block_from_file(i) returns the i-th block for i in 1..length and
\* returns nothing, without failing, for every other i, 0 included.  Does not
\* hold: with overflow checks load_block_from_file(0) panics on a file that
\* has a line.
C30_AppendThenLoad ==
    /\ LoadedAfterAppend =>
          /\ result.length = <<Len(chain) + 1>>
          /\ other[1] = Len(chain) + 1 => result.found = <<block>>
          /\ other[1] \in 1..Len(chain) => result.found = <<chain[other[1]]>>
    /\ Loaded =>
          /\ ~result.panic
          /\ result.length # <<>>
          /\ other[1] \in 1..result.length[1] =>
                result.found = <<file.blocks[other[1]]>>
          /\ other[1] \notin 1..result.length[1] => result.found = <<>>

-----------------------------------------------------------------------------
(* Properties of the node and the miner sharing the file                     *)

\* the blocks are empty or a chain: the first is the genesis block and every
\* later one has its line number as idx and the hash of the block before it
IsChain(blocks) ==
    \/ blocks = <<>>
    \/ /\ blocks[1] = Genesis
       /\ \A i \in 2..Len(blocks) :
             /\ blocks[i].idx = i
             /\ blocks[i].previous_block_hash = Hash(blocks[i - 1])

\* C31: in every reachable state of the node the file is empty or a chain.
\* Does not hold: validate_chain accepts a copy of the genesis block at any
\* position, so a received chain that is no chain is saved to the file.
C31_StoreIsChain == IsChain(file.blocks)

\* the proposal handled last is the block the file already ended with, and it
\* was valid for the file before it: the second delivery of a valid proposal
SecondDelivery ==
    /\ ProposalHandled
    /\ last.pre.chain_initialized
    /\ last.pre.file.exists
    /\ last.pre.file.blocks # <<>>
    /\ last.pre.file.blocks[Len(last.pre.file.blocks)] = last.event.block
    /\ last.event.block.idx = Len(last.pre.file.blocks)
    /\ last.event.block.idx >= 2
    /\ validate_block_using_file(last.event.block, Before(last.pre.file)) = "ok"

\* C32: handling a BlockProposal is idempotent: the second delivery of the
\* same valid proposal leaves the file as it was after the first.  Does not
\* hold: the proposal is validated against the line idx - 1 of the file, not
\* against its last line, and is appended again.
C32_ProposalIdempotent == SecondDelivery => file = last.pre.file

\* the verdicts of validate_block on the block validated last: against the
\* chain in memory, against the file, and against a file that cannot be opened
Verdicts == {result.in_chain, result.in_file, result.no_file}

\* the cases the claim names: idx 0, or a pow that is no decimal number in a
\* block above the genesis block
NamedCase == block.idx = 0 \/ (block.idx >= 2 /\ ~ParseU64(block.pow).ok)

\* C33: validate_block returns true or false for every block and never
\* aborts; a block with idx = 0, a block whose pow is no decimal 64-bit number
\* and a block whose sidelinked blocks carry fewer sidelinks than it does are
\* rejected with false.  Does not hold: each of the three panics.
C33_ValidateBlockTotal ==
    Validated =>
        /\ "panic" \notin Verdicts
        /\ NamedCase => Verdicts = {"reject"}

\* the miner works on the genesis block, the only tip it was notified of
OnGenesisTip ==
    /\ pc = "miner"
    /\ miner.pc \in {"ready", "proving", "mined"}
    /\ miner.received_tip = Genesis
    /\ miner.last_block = Genesis

\* the miner has sent a block of height 2 on new_mined_block
EmittedHeight2 ==
    /\ miner.publication = "sent"
    /\ miner.last_block.idx = 2

\* what the claim assumes away, and what ends the task: a further tip, the
\* end of the event loop, a failure of the file
Disturbed ==
    \/ new_last_block # <<>>
    \/ miner.received_tip # Genesis
    \/ crashed
    \/ miner.publication \in {"lookup_failed", "append_failed", "send_failed"}

\* C34: after the chain was initialized with the genesis block alone and the
\* miner was notified of that tip, the miner eventually emits a block of
\* height 2, under fair scheduling and with no further tip.  Does not hold:
\* the miner takes its difficulty from the genesis block, which is zero, and no
\* token is below it.
C34_MinerEmitsHeight2 == OnGenesisTip ~> (EmittedHeight2 \/ Disturbed)

\* a record without its number
Unnumbered(record) == [record EXCEPT !.idx = <<0, 0>>]

\* records holds r, whatever its number
Holds(records, r) ==
    \E k \in 1..Len(records) : Unnumbered(records[k]) = Unnumbered(r)

\* the step that begins an attempt after the mined block was dropped for a
\* newer tip
AttemptAfterDiscard ==
    /\ pc = "miner"
    /\ miner.pc = "ready"
    /\ miner.publication = "none"
    /\ miner.new_block # NoBlock
    /\ miner'.pc = "proving"

\* C35: no record delivered to the miner is lost: when an attempt begins after
\* a mined block was discarded for a newer tip, every record of the discarded
\* block that the tip does not hold is in the new candidate.  Does not hold:
\* prove_the_work begins every attempt with a block without records.
C35_RecordsCarriedOver ==
    [][AttemptAfterDiscard =>
          \A k \in 1..Len(miner.new_block.records) :
              ~Holds(miner.last_block.records, miner.new_block.records[k])
                  => Holds(miner'.new_block.records, miner.new_block.records[k])]_vars

-----------------------------------------------------------------------------
(* Properties of the tip change, stated on its harness *)

TipChanged == pc = "rebuilt"

\* the records without their numbers
UnnumberedAll(records) == [k \in 1..Len(records) |-> Unnumbered(records[k])]

\* the records that equal no record of the tip, on all fields
NotInTip(records, tip_records) ==
    SelectSeq(records, LAMBDA r : \A k \in 1..Len(tip_records) : tip_records[k] # r)

\* C36: on a tip change during an attempt the candidate afterwards holds
\* exactly those of its pending records that equal, on all fields and the idx
\* too, no record of the new tip, in their order; the others are discarded.
C36_TipChangeKeepsRecords ==
    TipChanged =>
        UnnumberedAll(block.records)
            = UnnumberedAll(NotInTip(result.before.records, other[1].records))

\* three records were pending, the tip held the second of them with the same
\* number and the content of the third under another number: the first and
\* the third are kept
C36_Witness ==
    /\ TipChanged
    /\ Len(result.before.records) = 3
    /\ \E k \in 1..Len(other[1].records) :
          other[1].records[k] = result.before.records[2]
    /\ \E k \in 1..Len(other[1].records) :
          /\ Unnumbered(other[1].records[k]) = Unnumbered(result.before.records[3])
          /\ other[1].records[k] # result.before.records[3]
    /\ Len(block.records) = 2
    /\ Unnumbered(block.records[2]) = Unnumbered(result.before.records[3])

-----------------------------------------------------------------------------
(* Properties of the poll *)

\* the step of a poll
PollStep ==
    /\ pc = "miner"
    /\ miner.pc = "proving"
    /\ new_record' # new_record \/ new_last_block' # new_last_block

\* C37: a poll drains both channels: right after it no message is waiting, the
\* candidate is built on the tip sent last and holds every record sent before
\* the poll.  Does not hold: a poll takes one message from each channel.
C37_PollDrains ==
    [][PollStep =>
          /\ new_record' = <<>>
          /\ new_last_block' = <<>>
          /\ new_last_block # <<>> =>
                miner'.new_block.previous_block_hash
                    = Hash(new_last_block[Len(new_last_block)])
          /\ \A k \in 1..Len(new_record) :
                Holds(miner'.new_block.records, new_record[k])]_vars

-----------------------------------------------------------------------------
(* Properties of a failed write of a received chain *)

\* a chain sent to this node waits to be handled
ChainPending ==
    /\ pc = "node"
    /\ last.type = "pending"
    /\ ChainEvent

\* the writes the handler of the pending chain would make do not all succeed:
\* choose_chain writes twice when the local chain was not compared
SaveFails(io) ==
    IF chain_initialized /\ load_from_file(file) = <<>>
    THEN io[1] # "ok" \/ io[2] # "ok"
    ELSE io[1] # "ok"

\* C38: when writing a received chain to the store fails, on the
\* uninitialized path or after the remote chain won the choice, the node does
\* not adopt the chain: chain_initialized keeps its value and no tip is sent
\* to the miner
C38_FailClosedOnSave ==
    [][\A io \in IoPairs :
          (ChainPending /\ SaveFails(io) /\ Handle(io)) =>
              /\ chain_initialized' = chain_initialized
              /\ new_last_block' = new_last_block]_vars

\* an initialized node has handled a valid chain longer than its own, and the
\* write of it failed after the file was truncated
C38_Witness ==
    /\ ChainHandled
    /\ ~crashed
    /\ validate_chain(ReceivedChain.blocks) = "ok"
    /\ last.pre.file.exists
    /\ last.pre.file.blocks # <<>>
    /\ Len(ReceivedChain.blocks) > Len(last.pre.file.blocks)
    /\ file = [blocks |-> <<>>, exists |-> TRUE]
    /\ last.chosen = "NoChain"
    /\ chain_initialized
    /\ new_last_block = last.pre.new_last_block

-----------------------------------------------------------------------------
(* Properties of the token getters, stated on their harness *)

\* the getters were applied to the block and the nonce
TokensCompared ==
    /\ pc = "tokens"
    /\ result.op = "compare_token_getters"

\* C40: for every block and nonce n, get_new_token(block, n) is the token
\* get_token_from_block gives for the block whose pow is n in decimal, and
\* both tokens are the same for every block with that previous_block_hash
\* and nonce
C40_TokenGettersAgree ==
    TokensCompared =>
        /\ result.token2 = [panic |-> FALSE, token |-> result.token]
        /\ \A b \in TokenBlocks :
              b.previous_block_hash = block.previous_block_hash =>
                  /\ get_new_token(b, result.nonce) = result.token
                  /\ get_token_from_block(
                         [b EXCEPT !.pow = DecimalString(result.nonce)])
                         = result.token2

\* the getters were compared on a block past the genesis block, with a
\* difficulty, for a nonce of three digits and two non-zero bytes
C40_Witness ==
    /\ TokensCompared
    /\ result.nonce = MaxTokenNonce
    /\ block.pow = DecimalString(MaxTokenNonce)
    /\ block.idx = 2
    /\ block.previous_block_hash = Hash(Genesis)
    /\ block.difficulty = Difficulty
    /\ ~result.token2.panic

-----------------------------------------------------------------------------
(* Properties of the exchange of chains between two peers *)

\* the winner of the fork choice between the chains the peers started with
ForkChoiceWinner ==
    IF find_longest_chain(result.local_chain, result.remote_chain).chosen_chain_type
           = "Remote"
    THEN result.remote_chain
    ELSE result.local_chain

\* nothing is in flight and both files hold the winner
Converged ==
    /\ pc = "exchange"
    /\ other = <<>>
    /\ file.blocks = ForkChoiceWinner
    /\ result.node.file.blocks = ForkChoiceWinner

\* the exchange has ended: a chain was published and nothing is in flight
ExchangeEnded ==
    /\ pc = "exchange"
    /\ other = <<>>

\* C39: after one of two initialized peers with valid chains L and R has
\* published its chain, the exchange ends, and when it has ended both files
\* hold the winner of the fork choice between L and R.  Does not hold: the
\* peer whose chain wins publishes nothing, so the exchange ends with the
\* other peer still holding its own chain.
C39_ExchangeConverges == ExchangeEnded => Converged

====
